---- MODULE Spec2Model ----
(***************************************************************************)
(* SushiDL: the fetch-and-assemble pipeline of src/SushiDL.py, and the     *)
(* page cutter of src/cut_sushiscan_fr/cut.py.                             *)
(*                                                                         *)
(*   SpecFetch     robust_download_image, one call, step by step           *)
(*   Spec          download_volume with its worker pool (download_image),  *)
(*                 the cookie-retry escalation and the archiving step      *)
(*   SpecCookie    the same, over the ways the Cookie header is derived    *)
(*   SpecPool      the same, with malformed image URLs and a full disk     *)
(*   SpecStale     the same, on a folder left by an earlier attempt        *)
(*   SpecLock      the pool threads at the grain of the shared structures  *)
(*   SpecClassify  classify_download_failure                               *)
(*   SpecNames     the filenames download_image writes                     *)
(*   SpecParse     parse_manga_data_from_html                              *)
(*   SpecLinks     parse_manga_data_from_html, hosts of the links          *)
(*   SpecNormalize normalize_image_url, applied twice                      *)
(*   SpecImages    get_images.extract_images                               *)
(*   SpecProbe     evaluate_cookie_and_challenge, test_cookie_validity     *)
(*   SpecWidth     the executor of download_volume, images beyond THREADS  *)
(*   SpecLive      Spec, every thread scheduled and every call returning   *)
(*   SpecSelected  MangaApp.download_selected over several runs            *)
(*   SpecAddress   the address evaluate_cookie_and_challenge probes        *)
(*   SpecStrip     cut_sushiscan_fr/cut.py, iter_pages_from_strip          *)
(*                                                                         *)
(* None is modelled by NoStatus for status codes and by NoErr for last_exc.*)
(***************************************************************************)
EXTENDS Integers, Sequences, FiniteSets, TLC

VARIABLES
    \* ---- shared
    cancel,          \* cancel_event.is_set()
    \* ---- robust_download_image (SpecFetch)
    max_try,         \* parameter max_try
    delay,           \* parameter delay
    hasEvent,        \* cancel_event is not None
    fs,              \* the call's position and locals: pc, attempt, last_exc, sleep_time, raised error
    gets,            \* number of GETs issued by the call
    nsleeps,         \* number of interruptible_sleep calls made by the call
    lastResp,        \* the response of the most recent GET
    prevSleep,       \* duration of the previous backoff sleep
    all429,          \* every GET so far was answered with HTTP 429
    cancelInSleep,   \* the flag was set while a backoff sleep was due or in progress
    \* ---- download_volume and its pool (Spec)
    pc,              \* position of the thread running download_volume
    depth,           \* number of cookie restarts (recursive calls) so far
    cookie,          \* parameter cookie of the current invocation
    result,          \* return value: "Success" (True), "Failed" (False), "Cancelled" (None)
    dirExists,       \* the chapter directory exists
    files,           \* image files of the directory: ordinal -> who wrote it
    cbz,             \* the archive file: "none", "ok", "bad"
    task,            \* the futures and their download_image calls, by ordinal
    failed_downloads,\* the failure list, split by ordinal
    nsubmitted,      \* loop index of the submission loop
    ncollected,      \* futures the as_completed loop has consumed
    asked,           \* the yes/no prompt was shown by the current invocation
    answer,          \* what the last prompt produced
    sent,            \* Cookie headers of the GETs of the current invocation
    app,             \* MangaApp.current_instance is set
    cookie_headers,  \* app.cookie_headers[domain of the images]
    ui_cookie,       \* the cookie field of the UI for that domain
    image_domain,    \* get_sushiscan_domain_from_url(image url): "fr", "net" or ""
    cbz_enabled,     \* parameter cbz_enabled
    mkdirFailed,     \* os.makedirs raised in the current invocation
    cancelBeforePoolEnd, \* the flag was set before the pool of an invocation had finished
    cancelInPool,    \* the flag was set while the pool was running
    cancelAtPrompt,  \* the flag was set while a prompt was open
    urls,            \* the image URLs by ordinal: "ok", or "bad" for one urlparse rejects
    disk,            \* the file system: "ok", or "full" when creating or writing a file may fail
    collected,       \* futures whose result the as_completed loop has read
    progress_counter,\* progress_counter["done"], the value last passed to update_progress
    arch,            \* the call of archive_cbz made by the invocation
    \* ---- classify_download_failure (SpecClassify)
    clsStatus,       \* argument status_code
    clsMessage,      \* argument message
    clsKind,         \* the value returned, "unset" before the call
    \* ---- the lock of download_volume and the workers' shared structures (SpecLock)
    lpc,             \* position of each download_image call
    lkind,           \* the kind of failure each call is about to register
    lock,            \* holder of the threading.Lock of line 1168
    lockCounter,     \* progress_counter["done"]
    lockList,        \* failed_downloads, in the order of the appends
    \* ---- the filenames of download_image (SpecNames)
    nameN,           \* len(images)
    nameArgs,        \* two positions of the chapter with their URL extensions
    nameConv,        \* webp2jpg_enabled and whether the conversion works
    nameOut,         \* the two filenames, empty before the calls
    \* ---- parse_manga_data_from_html (SpecParse)
    pageUrl,         \* the URL of the catalogue page
    anchors,         \* the anchors of the page in document order
    parsed,          \* the outcome of the call: not called, raised, or returned with its pairs
    \* ---- normalize_image_url (SpecNormalize)
    normIn,          \* the string given to the first call
    normRuns,        \* what the calls made so far returned, each fed the result of the one before
    \* ---- get_images.extract_images (SpecImages)
    imgPage,         \* the chapter page: what each of the three strategies finds in it
    imgOut,          \* the outcome of the call
    \* ---- evaluate_cookie_and_challenge (SpecProbe)
    probeIn,         \* the arguments of the call and what the probe request meets
    probeOut,        \* the outcome of the call and of test_cookie_validity
    \* ---- the executor of download_volume (SpecWidth)
    wpool,           \* the pool of one chapter: its tasks, the submit loop, the calls made
    \* ---- MangaApp.download_selected (SpecSelected)
    sel,             \* one run of the task: the chapters, the pass, the retry list
    \* ---- iter_pages_from_strip (SpecStrip)
    strip            \* the strip given and the pages yielded

fetchVars == <<max_try, delay, hasEvent, fs, gets, nsleeps, lastResp, prevSleep, all429, cancelInSleep>>

volVars == <<pc, depth, cookie, result, dirExists, files, cbz, task, failed_downloads,
             nsubmitted, ncollected, asked, answer, sent, app, cookie_headers, ui_cookie,
             image_domain, cbz_enabled, mkdirFailed, cancelBeforePoolEnd, cancelInPool,
             cancelAtPrompt, urls, disk, collected, progress_counter, arch>>

clsVars == <<clsStatus, clsMessage, clsKind>>

lockVars == <<lpc, lkind, lock, lockCounter, lockList>>
nameVars == <<nameN, nameArgs, nameConv, nameOut>>
parseVars == <<pageUrl, anchors, parsed>>

pureVars == <<normIn, normRuns, imgPage, imgOut, probeIn, probeOut>>

\* the state of the functions checked on their own
lateVars == <<wpool, sel, strip>>

unitVars == <<clsVars, lockVars, nameVars, parseVars, pureVars, lateVars>>

vars == <<cancel, fetchVars, volVars, unitVars>>

\* ------------------------------------------------------------------ bounds
MaxTryBound == 5
MaxDelay == 2
NImages == 2
MaxRestarts == 1

\* --------------------------------------------------------------- constants
NoStatus == 0
DefaultMaxTry == 4
DefaultDelay == 2
MaxBackoff == 60
THREADS == 3
ArchiveMinSize == 10000

Min(a, b) == IF a <= b THEN a ELSE b

\* ------------------------------------------------- ImageDownloadError values
Err(kind, status) == [kind |-> kind, status |-> status]
NoErr == [kind |-> "none", status |-> NoStatus]

\* ------------------------------------------------------------- classifier
\* Text is a sequence of characters. None is NoMessage for a message.
NoMessage == <<"None">>

UpperCase == <<"A", "B", "C", "D", "E", "F", "G", "H", "I", "J", "K", "L", "M", "N", "O", "P", "Q", "R", "S", "T", "U", "V", "W", "X", "Y", "Z">>
LowerCase == <<"a", "b", "c", "d", "e", "f", "g", "h", "i", "j", "k", "l", "m", "n", "o", "p", "q", "r", "s", "t", "u", "v", "w", "x", "y", "z">>

\* str.lower() on the capital letters, as a table
ToLower ==
    [c \in {UpperCase[k] : k \in 1..Len(UpperCase)} |->
        LowerCase[CHOOSE k \in 1..Len(UpperCase) : UpperCase[k] = c]]

\* str.lower() on one character
LowerChar(c) == IF c \in DOMAIN ToLower THEN ToLower[c] ELSE c

\* (message or "").lower()
Lower(message) ==
    LET text == IF message = NoMessage THEN <<>> ELSE message
    IN  [k \in 1..Len(text) |-> LowerChar(text[k])]

\* marker in lower
Contains(marker, lower) ==
    \E k \in 0..(Len(lower) - Len(marker)) : SubSeq(lower, k + 1, k + Len(marker)) = marker

Markers ==
    { <<"c", "l", "o", "u", "d", "f", "l", "a", "r", "e">>,
      <<"j", "u", "s", "t", " ", "a", " ", "m", "o", "m", "e", "n", "t">>,
      <<"a", "t", "t", "e", "n", "t", "i", "o", "n", " ", "r", "e", "q", "u", "i", "r", "e", "d">>,
      <<"c", "a", "p", "t", "c", "h", "a">> }

\* any(marker in lower for marker in (...))
HasMarker(lower) == \E marker \in Markers : Contains(marker, lower)

\* variant: the message markers looked at before the status code
ClassifyMarkersFirst(status_code, message) ==
    IF HasMarker(Lower(message)) THEN "blocked_or_retryable"
    ELSE IF status_code \in {404, 410} THEN "missing"
    ELSE IF status_code \in {401, 403, 429, 500, 502, 503, 504} THEN "blocked_or_retryable"
    ELSE "retryable"

classify_download_failure(status_code, message) ==
    IF status_code \in {404, 410} THEN "missing"
    ELSE IF status_code \in {401, 403, 429, 500, 502, 503, 504} THEN "blocked_or_retryable"
    ELSE IF HasMarker(Lower(message)) THEN "blocked_or_retryable"
    ELSE "retryable"

\* The messages of the failures: f"HTTP Error {code}" and str(e) of the client
MsgHttpError == <<"H", "T", "T", "P", " ", "E", "r", "r", "o", "r">>
MsgTimedOut == <<"t", "i", "m", "e", "d", " ", "o", "u", "t">>
MsgJustAMoment == <<"J", "u", "s", "t", " ", "a", " ", "m", "o", "m", "e", "n", "t", ".", ".", ".">>

\* ---------------------------------------------------------------- responses
\* What one GET can produce: an HTTP response (status, body) or an exception
\* of the client (status read by get_status_code_from_exception, message).
HttpStatuses == {200, 206, 404, 410, 403, 429, 503, 418}
Bodies == {"image", "html", "garbage"}
HttpResponses ==
    {[via |-> "http", status |-> s, body |-> b, message |-> MsgHttpError] :
        s \in HttpStatuses \ {200, 206}, b \in {"html"}}
    \cup {[via |-> "http", status |-> s, body |-> b, message |-> MsgHttpError] :
            s \in {200, 206}, b \in Bodies}
Exceptions ==
    {[via |-> "exc", status |-> s, body |-> "none", message |-> m] :
        s \in {NoStatus, 404, 429}, m \in {MsgTimedOut, MsgJustAMoment}}
Responses == HttpResponses \cup Exceptions
NoResp == [via |-> "none", status |-> NoStatus, body |-> "none", message |-> NoMessage]

\* ------------------------------------------------------ robust_download_image
Pow2(n) == 2 ^ n

\* variant: the exponential backoff without its 60 s cap
SleepTimeUncapped(d, attempt, status_code) ==
    IF status_code \in {403, 429} THEN d * Pow2(attempt) ELSE d * attempt

\* sleep_time of lines 247 and 269-275
SleepTime(d, attempt, status_code) ==
    IF status_code \in {403, 429} THEN Min(d * Pow2(attempt), MaxBackoff) ELSE d * attempt

FetchStart == [pc |-> "loop", attempt |-> 0, last_exc |-> NoErr, sleep_time |-> 0, err |-> NoErr]

Raise(f, e) == [f EXCEPT !.pc = "raised", !.err = e]

\* lines 276-282: after the loop
Exhausted(f) ==
    IF f.last_exc # NoErr THEN Raise(f, f.last_exc) ELSE Raise(f, Err("retryable", NoStatus))

\* variant: the attempt started without reading the flag
LoopIgnoresFlag(f, mt, hasEv, isSet) ==
    IF f.attempt >= mt THEN Exhausted(f)
    ELSE [f EXCEPT !.attempt = f.attempt + 1, !.pc = "get"]

\* lines 164-166: the for loop head and the cancellation check of the attempt
LoopStep(f, mt, hasEv, isSet) ==
    IF f.attempt >= mt THEN Exhausted(f)
    ELSE IF hasEv /\ isSet THEN [f EXCEPT !.attempt = f.attempt + 1, !.pc = "cancelled"]
    ELSE [f EXCEPT !.attempt = f.attempt + 1, !.pc = "get"]

\* variant: a 'missing' error handled like any other
RetryMissing(f, e, d) ==
    [f EXCEPT !.last_exc = e, !.sleep_time = SleepTime(d, f.attempt, e.status), !.pc = "backoff"]

\* lines 238-249 and 250-275: the two exception handlers of the attempt
OnError(f, e, d) ==
    IF e.kind = "missing" THEN Raise([f EXCEPT !.last_exc = e], e)
    ELSE [f EXCEPT !.last_exc = e, !.sleep_time = SleepTime(d, f.attempt, e.status), !.pc = "backoff"]

\* variant: the undecodable body raised at once
UndecodableRaises(f, d) ==
    Raise([f EXCEPT !.last_exc = Err("retryable", NoStatus)], Err("retryable", NoStatus))

\* variant: the undecodable body not recorded in last_exc
OnUndecodableForgets(f, d) ==
    [f EXCEPT !.sleep_time = d * f.attempt, !.pc = "backoff"]

\* lines 216-231: body not recognised as an image
OnUndecodable(f, d) ==
    [f EXCEPT !.last_exc = Err("retryable", NoStatus), !.sleep_time = d * f.attempt, !.pc = "backoff"]

\* variant: the body not looked at for an HTML signature
GetSkipsHtmlCheck(f, resp, d) ==
    IF resp.via = "exc"
    THEN OnError(f, Err(classify_download_failure(resp.status, resp.message), resp.status), d)
    ELSE IF resp.status # NoStatus /\ resp.status >= 400
    THEN OnError(f, Err(classify_download_failure(resp.status, resp.message), resp.status), d)
    ELSE IF resp.body \in {"html", "garbage"} THEN OnUndecodable(f, d)
    ELSE [f EXCEPT !.pc = "returned"]

\* variant: the body returned without the attempt to open it as an image
GetSkipsDecoding(f, resp, d) ==
    IF resp.via = "exc"
    THEN OnError(f, Err(classify_download_failure(resp.status, resp.message), resp.status), d)
    ELSE IF resp.status # NoStatus /\ resp.status >= 400
    THEN OnError(f, Err(classify_download_failure(resp.status, resp.message), resp.status), d)
    ELSE IF resp.body = "html" THEN OnError(f, Err("blocked_or_retryable", NoStatus), d)
    ELSE [f EXCEPT !.pc = "returned"]

\* lines 167-234: one GET and what the attempt makes of its answer
GetStep(f, resp, d) ==
    IF resp.via = "exc"
    THEN OnError(f, Err(classify_download_failure(resp.status, resp.message), resp.status), d)
    ELSE IF resp.status # NoStatus /\ resp.status >= 400
    THEN OnError(f, Err(classify_download_failure(resp.status, resp.message), resp.status), d)
    ELSE IF resp.body = "html" THEN OnError(f, Err("blocked_or_retryable", NoStatus), d)
    ELSE IF resp.body = "garbage" THEN OnUndecodable(f, d)
    ELSE [f EXCEPT !.pc = "returned"]

\* interruptible_sleep, lines 99-100: nothing to wait for
SleepReturnsAtOnce(duration) == duration <= 0

\* interruptible_sleep entered with f.sleep_time
BackoffStep(f) ==
    IF SleepReturnsAtOnce(f.sleep_time) THEN [f EXCEPT !.pc = "loop"]
    ELSE [f EXCEPT !.pc = "waiting"]

\* variant: the result of the wait thrown away
WakeIgnoresFlag(f, hasEv, isSet) == [f EXCEPT !.pc = "loop"]

\* interruptible_sleep lines 101-104 and the raise that follows a True result
WakeStep(f, hasEv, isSet) ==
    IF hasEv /\ isSet THEN [f EXCEPT !.pc = "cancelled"] ELSE [f EXCEPT !.pc = "loop"]

FetchDone(f) == f.pc \in {"returned", "raised", "cancelled"}
SleepPending(f) == f.pc \in {"backoff", "waiting"}

\* ------------------------------------------------------------ download_image
Images == 1..NImages

NoHeader == <<>>
\* f"cf_clearance={cookie}"
Hdr(c) == <<"cf_clearance", c>>

\* The cookie the caller starts with and those typed at the retry prompt.
FirstCookie == "c0"
TypedCookies == <<"c1", "c2", "c3">>

\* MangaApp.get_cookie_header_for_url / get_cookie_header_for_domain
get_cookie_header_for_domain(has_app, header, domain, fallback_cookie, ui_value) ==
    IF domain \notin {"fr", "net"} THEN NoHeader
    ELSE IF header # NoHeader THEN header
    ELSE IF (IF fallback_cookie # "" THEN fallback_cookie ELSE ui_value) # ""
         THEN Hdr(IF fallback_cookie # "" THEN fallback_cookie ELSE ui_value)
    ELSE NoHeader

\* download_image lines 779-798: the Cookie header of the image request
RequestCookieHeader(has_app, header, domain, c, ui_value) ==
    LET cookie_header ==
            IF has_app THEN get_cookie_header_for_domain(has_app, header, domain, c, ui_value)
            ELSE NoHeader
    IN  IF cookie_header = NoHeader /\ c # "" THEN Hdr(c) ELSE cookie_header

\* What the image server answers in the pool runs.
PoolResponses ==
    {r \in Responses :
        /\ r.via = "http"
        /\ r.status \in {200, 404, 403}
        /\ r.body \in {"image", "garbage", "html"}
        /\ (r.status = 200 => r.body # "html")}

NoFile == -2
\* a file left in the folder by an earlier call of download_volume
StaleFile == -1

\* str(e) of the OSError of open() or write()
MsgNoSpace == <<"N", "o", " ", "s", "p", "a", "c", "e", " ", "l", "e", "f", "t", " ", "o", "n", " ", "d", "e", "v", "i", "c", "e">>

\* line 810-811: the outcomes of creating and writing the file
WriteOutcomes(d) == IF d = "full" THEN {"ok", "open_error", "write_error"} ELSE {"ok"}

NoTask == [st |-> "none", f |-> FetchStart, got |-> FALSE, wrote |-> FALSE]

\* register_failure, lines 764-772
Failure(kind, status_code) == [kind |-> kind, status_code |-> status_code]

\* ----------------------------------------------------------- download_volume
AllFailures(fl) == UNION {{fl[i][k] : k \in 1..Len(fl[i])} : i \in Images}

\* line 1240
MissingFailures(fl) == {x \in AllFailures(fl) : x.kind = "missing"}

\* variant: 'missing' counted among the hard failures
HardFailuresCountMissing(fl) == {x \in AllFailures(fl) : x.kind # "cancelled"}

\* line 1241
HardFailures(fl) == {x \in AllFailures(fl) : x.kind \notin {"missing", "cancelled"}}

\* variant: no check at entry
EntryIgnoresFlag(isSet) == FALSE

\* line 1144
EntryCancelled(isSet) == isSet

\* variant: no check after the pool
PoolIgnoresFlag(isSet) == FALSE

\* the checks that follow the pool: lines 1215, 1259-1263 and 1315
PoolCancelled(isSet) == isSet

\* variant: no check after a prompt
PromptIgnoresFlag(isSet) == FALSE

\* lines 1277 and 1291
PromptCancelled(isSet) == isSet

\* variant: the old folder kept on restart
KeepTree(folder) == folder

\* shutil.rmtree(folder, ignore_errors=True), line 1294
RmTree(folder) == [exists |-> FALSE, files |-> [i \in Images |-> NoFile]]

\* the futures of the recursive call, lines 1296-1308: none yet, every image to submit
RestartTasks(tk) == [i \in Images |-> NoTask]

Running(tk) == {i \in Images : tk[i].st = "running"}
Queued(tk) == {i \in Images : tk[i].st = "queued"}
Finished(tk) == {i \in Images : tk[i].st \in {"done", "dropped"}}

PoolOpen(p) == p \in {"entry", "makedirs", "submit", "collect", "join"}
PoolRunning(p) == p \in {"submit", "collect", "join"}
PromptOpen(p) == p \in {"ask_yes_no", "ask_string"}

\* download_image lines 831-849: the failure recorded for a fetch that did not return
\* variant: no exception ever found in a future
NeverPropagated(f) == FALSE

\* line 801: urlparse raises before the try block, the future holds the exception
Propagated(f) == f.pc = "propagated"

DownloadImageFailure(f) ==
    IF f.pc = "cancelled" THEN Failure("cancelled", NoStatus)
    ELSE Failure(f.err.kind, f.err.status)

\* What writing and reading back the archive can do: ZipFile.write raises, or the
\* archive is written with some size and the verification raises (the file cannot
\* be read as a zip), reports a corrupt entry (testzip returns its name) or is clean.
ArchiveSizes == {ArchiveMinSize - 1, ArchiveMinSize, ArchiveMinSize + 1}

ArchiveOutcomes ==
    {[written |-> "raises", verify |-> "none", size |-> ArchiveMinSize - 1]}
    \cup {[written |-> "ok", verify |-> v, size |-> z] :
             v \in {"clean", "raises", "reports"}, z \in ArchiveSizes}

\* variant: the name testzip returns is taken for a failure
ArchiveChecksReport(folder, o) ==
    IF o.written = "raises" THEN [returned |-> "raised", cbz |-> "bad", folder |-> folder]
    ELSE IF o.verify # "clean" THEN [returned |-> "false", cbz |-> "bad", folder |-> folder]
    ELSE IF o.size > ArchiveMinSize
    THEN [returned |-> "true", cbz |-> "ok",
          folder |-> [exists |-> FALSE, files |-> [i \in Images |-> NoFile]]]
    ELSE [returned |-> "false", cbz |-> "bad", folder |-> folder]

\* archive_cbz, lines 701-737: write the archive, read it back, remove the folder
archive_cbz(folder, o) ==
    IF o.written = "raises" THEN [returned |-> "raised", cbz |-> "bad", folder |-> folder]
    ELSE IF o.verify = "raises" THEN [returned |-> "false", cbz |-> "bad", folder |-> folder]
    ELSE IF o.size > ArchiveMinSize
    THEN [returned |-> "true", cbz |-> (IF o.verify = "clean" THEN "ok" ELSE "corrupt"),
          folder |-> [exists |-> FALSE, files |-> [i \in Images |-> NoFile]]]
    ELSE [returned |-> "false", cbz |-> "bad", folder |-> folder]

NoCall == [called |-> FALSE]

VolIdle ==
    /\ pc = "idle"
    /\ depth = 0
    /\ cookie = FirstCookie
    /\ result = "none"
    /\ dirExists = FALSE
    /\ files = [i \in Images |-> NoFile]
    /\ cbz = "none"
    /\ task = [i \in Images |-> NoTask]
    /\ failed_downloads = [i \in Images |-> <<>>]
    /\ nsubmitted = 0
    /\ ncollected = 0
    /\ asked = FALSE
    /\ answer = "none"
    /\ sent = {}
    /\ app = FALSE
    /\ cookie_headers = NoHeader
    /\ ui_cookie = FirstCookie
    /\ image_domain = "fr"
    /\ cbz_enabled = TRUE
    /\ mkdirFailed = FALSE
    /\ cancelBeforePoolEnd = FALSE
    /\ cancelInPool = FALSE
    /\ cancelAtPrompt = FALSE
    /\ urls = [i \in Images |-> "ok"]
    /\ disk = "ok"
    /\ collected = {}
    /\ progress_counter = 0
    /\ arch = NoCall

FetchIdle ==
    /\ max_try = DefaultMaxTry
    /\ delay = DefaultDelay
    /\ hasEvent = TRUE
    /\ fs = FetchStart
    /\ gets = 0
    /\ nsleeps = 0
    /\ lastResp = NoResp
    /\ prevSleep = 0
    /\ all429 = TRUE
    /\ cancelInSleep = FALSE
ClsIdle ==
    /\ clsStatus = NoStatus
    /\ clsMessage = NoMessage
    /\ clsKind = "unset"

NoHolder == 0

LockIdle ==
    /\ lpc = [i \in Images |-> "done"]
    /\ lkind = [i \in Images |-> "none"]
    /\ lock = NoHolder
    /\ lockCounter = 0
    /\ lockList = <<>>

NameIdle ==
    /\ nameN = 0
    /\ nameArgs = <<>>
    /\ nameConv = "off"
    /\ nameOut = <<>>

NotParsed == [state |-> "unset"]

NoUrl == [scheme |-> "", host |-> <<>>, path |-> ""]

ParseIdle ==
    /\ pageUrl = NoUrl
    /\ anchors = <<>>
    /\ parsed = NotParsed

NotCalled == [state |-> "unset"]

PureIdle ==
    /\ normIn = <<>>
    /\ normRuns = <<>>
    /\ imgPage = NotCalled
    /\ imgOut = NotCalled
    /\ probeIn = NotCalled
    /\ probeOut = NotCalled

LateIdle ==
    /\ wpool = NotCalled
    /\ sel = NotCalled
    /\ strip = NotCalled

UnitIdle == ClsIdle /\ LockIdle /\ NameIdle /\ ParseIdle /\ PureIdle /\ LateIdle

\* ------------------------------------------------------------- SpecFetch
FetchInit ==
    /\ cancel = FALSE
    /\ max_try \in 0..MaxTryBound
    /\ delay \in 0..MaxDelay
    /\ hasEvent \in BOOLEAN
    /\ fs = FetchStart
    /\ gets = 0
    /\ nsleeps = 0
    /\ lastResp = NoResp
    /\ prevSleep = 0
    /\ all429 = TRUE
    /\ cancelInSleep = FALSE
    /\ VolIdle
    /\ UnitIdle

NoteSleep(f, isSet) == cancelInSleep' = (cancelInSleep \/ (isSet /\ SleepPending(f)))

\* cancel_download (line 3305) from the UI thread, while the call runs
FetchSetCancel ==
    /\ hasEvent /\ ~cancel /\ ~FetchDone(fs)
    /\ cancel' = TRUE
    /\ NoteSleep(fs, TRUE)
    /\ UNCHANGED <<max_try, delay, hasEvent, fs, gets, nsleeps, lastResp, prevSleep, all429, volVars, unitVars>>

FetchLoop ==
    /\ fs.pc = "loop"
    /\ fs' = LoopStep(fs, max_try, hasEvent, cancel)
    /\ NoteSleep(fs', cancel)
    /\ UNCHANGED <<cancel, max_try, delay, hasEvent, gets, nsleeps, lastResp, prevSleep, all429, volVars, unitVars>>

FetchGet ==
    /\ fs.pc = "get"
    /\ \E resp \in Responses :
        /\ fs' = GetStep(fs, resp, delay)
        /\ lastResp' = resp
        /\ all429' = (all429 /\ resp.status = 429)
    /\ gets' = gets + 1
    /\ prevSleep' = fs.sleep_time
    /\ NoteSleep(fs', cancel)
    /\ UNCHANGED <<cancel, max_try, delay, hasEvent, nsleeps, volVars, unitVars>>

FetchBackoff ==
    /\ fs.pc = "backoff"
    /\ fs' = BackoffStep(fs)
    /\ nsleeps' = nsleeps + 1
    /\ NoteSleep(fs', cancel)
    /\ UNCHANGED <<cancel, max_try, delay, hasEvent, gets, lastResp, prevSleep, all429, volVars, unitVars>>

FetchWake ==
    /\ fs.pc = "waiting"
    /\ fs' = WakeStep(fs, hasEvent, cancel)
    /\ NoteSleep(fs', cancel)
    /\ UNCHANGED <<cancel, max_try, delay, hasEvent, gets, nsleeps, lastResp, prevSleep, all429, volVars, unitVars>>

FetchNext == FetchSetCancel \/ FetchLoop \/ FetchGet \/ FetchBackoff \/ FetchWake

SpecFetch == FetchInit /\ [][FetchNext]_vars

\* ------------------------------------------------------------------- Spec
cfgVars == <<app, cookie_headers, ui_cookie, image_domain, cbz_enabled, urls, disk>>

InitBase ==
    /\ cancel = FALSE
    /\ FetchIdle
    /\ UnitIdle
    /\ pc = "entry"
    /\ depth = 0
    /\ cookie = FirstCookie
    /\ result = "none"
    /\ files = [i \in Images |-> NoFile]
    /\ dirExists = FALSE
    /\ cbz = "none"
    /\ task = [i \in Images |-> NoTask]
    /\ failed_downloads = [i \in Images |-> <<>>]
    /\ nsubmitted = 0
    /\ ncollected = 0
    /\ asked = FALSE
    /\ answer = "none"
    /\ sent = {}
    /\ ui_cookie = FirstCookie
    /\ mkdirFailed = FALSE
    /\ cancelBeforePoolEnd = FALSE
    /\ cancelInPool = FALSE
    /\ cancelAtPrompt = FALSE
    /\ collected = {}
    /\ progress_counter = 0
    /\ arch = NoCall

\* The application as download_selected leaves it: the instance exists and holds
\* the header of the cookie it passes (line 1950); the images are on the site.
Init ==
    /\ InitBase
    /\ app = TRUE
    /\ cookie_headers = Hdr(FirstCookie)
    /\ image_domain = "fr"
    /\ cbz_enabled \in BOOLEAN
    /\ urls = [i \in Images |-> "ok"]
    /\ disk = "ok"

\* Every way the Cookie header can be derived: with or without an instance,
\* with or without a stored header, images on the site or on another host.
InitCookie ==
    /\ InitBase
    /\ app \in BOOLEAN
    /\ cookie_headers \in (IF app THEN {NoHeader, Hdr(FirstCookie)} ELSE {NoHeader})
    /\ image_domain \in {"fr", ""}
    /\ cbz_enabled = TRUE
    /\ urls = [i \in Images |-> "ok"]
    /\ disk = "ok"

\* A chapter whose image list may hold URLs urlparse rejects, on a file system
\* that may refuse a file.
InitPool ==
    /\ InitBase
    /\ app = TRUE
    /\ cookie_headers = Hdr(FirstCookie)
    /\ image_domain = "fr"
    /\ cbz_enabled = TRUE
    /\ urls \in [Images -> {"ok", "bad"}]
    /\ disk \in {"ok", "full"}

\* A chapter whose folder was left by an earlier cancelled or failed attempt
\* (os.makedirs(exist_ok=True) accepts it as it is).
InitStale ==
    /\ cancel = FALSE
    /\ FetchIdle
    /\ UnitIdle
    /\ pc = "entry"
    /\ depth = 0
    /\ cookie = FirstCookie
    /\ result = "none"
    /\ files \in [Images -> {NoFile, StaleFile}]
    /\ dirExists = TRUE
    /\ cbz = "none"
    /\ task = [i \in Images |-> NoTask]
    /\ failed_downloads = [i \in Images |-> <<>>]
    /\ nsubmitted = 0
    /\ ncollected = 0
    /\ asked = FALSE
    /\ answer = "none"
    /\ sent = {}
    /\ ui_cookie = FirstCookie
    /\ mkdirFailed = FALSE
    /\ cancelBeforePoolEnd = FALSE
    /\ cancelInPool = FALSE
    /\ cancelAtPrompt = FALSE
    /\ collected = {}
    /\ progress_counter = 0
    /\ arch = NoCall
    /\ app = TRUE
    /\ cookie_headers = Hdr(FirstCookie)
    /\ image_domain = "fr"
    /\ cbz_enabled \in BOOLEAN
    /\ urls = [i \in Images |-> "ok"]
    /\ disk = "ok"

\* bookkeeping of when the flag was seen set, from the new pc and flag
Note ==
    /\ cancelBeforePoolEnd' = (cancelBeforePoolEnd \/ (cancel' /\ PoolOpen(pc')))
    /\ cancelInPool' = (cancelInPool \/ (cancel' /\ PoolRunning(pc')))
    /\ cancelAtPrompt' = (cancelAtPrompt \/ (cancel' /\ PromptOpen(pc')))

Return(r) == pc' = "done" /\ result' = r

\* cancel_download (line 3305) from the UI thread
SetCancel ==
    /\ pc \notin {"done", "idle"} /\ ~cancel
    /\ cancel' = TRUE
    /\ UNCHANGED <<fetchVars, unitVars, cfgVars, collected, progress_counter, arch, pc, depth, cookie, result, dirExists, files, cbz, task,
                   failed_downloads, nsubmitted, ncollected, asked, answer, sent, mkdirFailed>>
    /\ Note

\* lines 1144-1145
Entry ==
    /\ pc = "entry"
    /\ IF EntryCancelled(cancel) THEN Return("Cancelled")
       ELSE pc' = "makedirs" /\ UNCHANGED result
    /\ UNCHANGED <<cancel, fetchVars, unitVars, cfgVars, collected, progress_counter, arch, depth, cookie, dirExists, files, cbz, task,
                   failed_downloads, nsubmitted, ncollected, asked, answer, sent, mkdirFailed>>
    /\ Note

\* lines 1147-1162: os.makedirs(folder, exist_ok=True) creates the folder or raises OSError
MakeDirs ==
    /\ pc = "makedirs"
    /\ \E created \in BOOLEAN :
        IF created
        THEN dirExists' = TRUE /\ pc' = "submit" /\ UNCHANGED <<result, mkdirFailed>>
        ELSE mkdirFailed' = TRUE /\ Return("Failed") /\ UNCHANGED dirExists
    /\ UNCHANGED <<cancel, fetchVars, unitVars, cfgVars, collected, progress_counter, arch, depth, cookie, files, cbz, task,
                   failed_downloads, nsubmitted, ncollected, asked, answer, sent>>
    /\ Note

\* lines 1170-1196: one turn of the submission loop
Submit ==
    /\ pc = "submit"
    /\ nsubmitted < NImages
    /\ IF cancel
       THEN pc' = "collect" /\ UNCHANGED <<task, nsubmitted>>
       ELSE /\ task' = [task EXCEPT ![nsubmitted + 1] = [NoTask EXCEPT !.st = "queued"]]
            /\ nsubmitted' = nsubmitted + 1
            /\ pc' = IF nsubmitted + 1 = NImages THEN "collect" ELSE "submit"
    /\ UNCHANGED <<cancel, fetchVars, unitVars, cfgVars, collected, progress_counter, arch, depth, cookie, result, dirExists, files, cbz,
                   failed_downloads, ncollected, asked, answer, sent, mkdirFailed>>
    /\ Note

\* lines 1199-1213: as_completed yields one more finished future; its result is
\* read and an exception it holds is recorded as a 'retryable' failure
CollectNext ==
    /\ pc = "collect"
    /\ ncollected < nsubmitted
    /\ \E i \in Finished(task) \ collected :
        IF cancel
        THEN /\ task' = [j \in Images |->
                           IF task[j].st = "queued" THEN [task[j] EXCEPT !.st = "dropped"]
                           ELSE task[j]]
             /\ pc' = "join"
             /\ UNCHANGED <<ncollected, collected, failed_downloads>>
        ELSE /\ ncollected' = ncollected + 1
             /\ collected' = collected \cup {i}
             /\ failed_downloads' =
                   IF Propagated(task[i].f)
                   THEN [failed_downloads EXCEPT ![i] = Append(@, Failure("retryable", NoStatus))]
                   ELSE failed_downloads
             /\ UNCHANGED <<task, pc>>
    /\ UNCHANGED <<cancel, fetchVars, unitVars, cfgVars, progress_counter, arch, depth, cookie, result,
                   dirExists, files, cbz, nsubmitted, asked, answer, sent, mkdirFailed>>
    /\ Note

\* the end of the with block (the executor joins its workers), then lines 1215-1252
AfterPool ==
    /\ pc = "join" \/ (pc = "collect" /\ ncollected = nsubmitted)
    /\ Running(task) = {} /\ Queued(task) = {}
    /\ IF PoolCancelled(cancel) THEN Return("Cancelled")
       ELSE IF HardFailures(failed_downloads) # {} THEN pc' = "hard" /\ UNCHANGED result
       ELSE pc' = "finalize" /\ UNCHANGED result
    /\ UNCHANGED <<cancel, fetchVars, unitVars, cfgVars, collected, progress_counter, arch, depth, cookie, dirExists, files, cbz, task,
                   failed_downloads, nsubmitted, ncollected, asked, answer, sent, mkdirFailed>>
    /\ Note

\* lines 1253-1276: report, check the flag, open the yes/no prompt
Hard ==
    /\ pc = "hard"
    /\ IF PoolCancelled(cancel) THEN Return("Cancelled") /\ UNCHANGED asked
       ELSE pc' = "ask_yes_no" /\ asked' = TRUE /\ UNCHANGED result
    /\ UNCHANGED <<cancel, fetchVars, unitVars, cfgVars, collected, progress_counter, arch, depth, cookie, dirExists, files, cbz, task,
                   failed_downloads, nsubmitted, ncollected, answer, sent, mkdirFailed>>
    /\ Note

\* lines 1268-1279 and 1310-1312: the yes/no prompt returns (or raises)
AnswerYesNo ==
    /\ pc = "ask_yes_no"
    /\ \E res \in {"yes", "no", "raise"} :
        /\ answer' = res
        /\ IF res = "raise" THEN Return("Failed")
           ELSE IF PromptCancelled(cancel) THEN Return("Cancelled")
           ELSE IF res = "yes" THEN pc' = "ask_string" /\ UNCHANGED result
           ELSE Return("Failed")
    /\ UNCHANGED <<cancel, fetchVars, unitVars, cfgVars, collected, progress_counter, arch, depth, cookie, dirExists, files, cbz, task,
                   failed_downloads, nsubmitted, ncollected, asked, sent, mkdirFailed>>
    /\ Note

\* lines 1280-1312: the cookie prompt returns (or raises); a cookie restarts the chapter
AnswerString ==
    /\ pc = "ask_string"
    /\ \E res \in {"empty", "raise"} \cup (IF depth < MaxRestarts THEN {"cookie"} ELSE {}) :
        /\ answer' = res
        /\ IF res = "raise" \/ PromptCancelled(cancel) \/ res = "empty"
           THEN /\ Return(IF res = "raise" THEN "Failed"
                          ELSE IF PromptCancelled(cancel) THEN "Cancelled" ELSE "Failed")
                /\ UNCHANGED <<depth, cookie, dirExists, files, task, failed_downloads,
                               nsubmitted, ncollected, asked, sent, collected, progress_counter>>
           ELSE /\ LET d == RmTree([exists |-> dirExists, files |-> files])
                   IN  dirExists' = d.exists /\ files' = d.files
                /\ depth' = depth + 1
                /\ cookie' = TypedCookies[depth + 1]
                /\ task' = RestartTasks(task)
                /\ failed_downloads' = [i \in Images |-> <<>>]
                /\ nsubmitted' = 0
                /\ ncollected' = 0
                /\ collected' = {}
                /\ progress_counter' = 0
                /\ asked' = FALSE
                /\ sent' = {}
                /\ pc' = "entry"
                /\ UNCHANGED result
    /\ UNCHANGED <<cancel, fetchVars, unitVars, cfgVars, arch, cbz, mkdirFailed>>
    /\ Note

\* variant: the folder never found empty
FileCountAtLeastOne(fl) == 1

\* line 1320: file_count
FileCount(fl) == Cardinality({i \in Images : fl[i] # NoFile})

\* lines 1314-1338, with archive_cbz (lines 701-737); an exception of archive_cbz
\* leaves download_volume ("Raised")
Finalize ==
    /\ pc = "finalize"
    /\ IF PoolCancelled(cancel)
       THEN Return("Cancelled") /\ UNCHANGED <<dirExists, files, cbz, arch>>
       ELSE IF ~dirExists THEN Return("Failed") /\ UNCHANGED <<dirExists, files, cbz, arch>>
       ELSE IF FileCount(files) = 0
            THEN Return("Failed") /\ UNCHANGED <<dirExists, files, cbz, arch>>
       ELSE IF cbz_enabled
            THEN \E o \in ArchiveOutcomes :
                    LET before == [exists |-> dirExists, files |-> files]
                        a == archive_cbz(before, o)
                    IN  /\ dirExists' = a.folder.exists
                        /\ files' = a.folder.files
                        /\ cbz' = a.cbz
                        /\ arch' = [called |-> TRUE, outcome |-> o, returned |-> a.returned,
                                    before |-> before]
                        /\ Return(CASE a.returned = "true" -> "Success"
                                    [] a.returned = "false" -> "Failed"
                                    [] OTHER -> "Raised")
       ELSE Return("Success") /\ UNCHANGED <<dirExists, files, cbz, arch>>
    /\ UNCHANGED <<cancel, fetchVars, unitVars, cfgVars, collected, progress_counter, depth, cookie,
                   task, failed_downloads, nsubmitted, ncollected, asked, answer, sent, mkdirFailed>>
    /\ Note

\* download_image lines 808-859: what the call does with the fetcher's outcome
\* (g: a GET was issued for the image); the call's locals end with it
Finish(i, f, g) ==
    IF f.pc = "returned"
    THEN \E w \in WriteOutcomes(disk) :
            /\ task' = [task EXCEPT ![i] = [st |-> "done", got |-> g, wrote |-> (w = "ok"),
                                            f |-> [FetchStart EXCEPT !.pc = f.pc, !.err = f.err]]]
            /\ files' = IF w = "open_error" THEN files ELSE [files EXCEPT ![i] = depth]
            /\ IF w = "ok"
               THEN /\ progress_counter' = progress_counter + 1
                    /\ UNCHANGED failed_downloads
               ELSE /\ failed_downloads' =
                          [failed_downloads EXCEPT ![i] =
                              Append(@, Failure(classify_download_failure(NoStatus, MsgNoSpace),
                                                NoStatus))]
                    /\ UNCHANGED progress_counter
    ELSE /\ task' = [task EXCEPT ![i] = [st |-> "done", got |-> g, wrote |-> FALSE,
                                         f |-> [FetchStart EXCEPT !.pc = f.pc, !.err = f.err]]]
         /\ failed_downloads' =
               [failed_downloads EXCEPT ![i] = Append(@, DownloadImageFailure(f))]
         /\ UNCHANGED <<files, progress_counter>>

\* a pool thread takes the next queued future: download_image lines 762-806
WorkerStart(i) ==
    /\ task[i].st = "queued"
    /\ Cardinality(Running(task)) < THREADS
    /\ \A j \in Images : j < i => task[j].st # "queued"
    /\ IF cancel
       THEN /\ task' = [task EXCEPT ![i].st = "done", ![i].f.pc = "cancelled"]
            /\ failed_downloads' =
                  [failed_downloads EXCEPT ![i] = Append(@, Failure("cancelled", NoStatus))]
       ELSE IF urls[i] = "bad"
       THEN /\ task' = [task EXCEPT ![i].st = "done", ![i].f.pc = "propagated"]
            /\ UNCHANGED failed_downloads
       ELSE task' = [task EXCEPT ![i].st = "running"] /\ UNCHANGED failed_downloads
    /\ UNCHANGED <<cancel, fetchVars, unitVars, cfgVars, collected, progress_counter, arch, pc, depth, cookie, result, dirExists, files, cbz,
                   nsubmitted, ncollected, asked, answer, sent, mkdirFailed>>
    /\ Note

\* one attempt of robust_download_image inside download_image (line 809):
\* the flag check, the GET and the entry into the backoff sleep
WorkerAttempt(i) ==
    /\ task[i].st = "running"
    /\ task[i].f.pc = "loop"
    /\ LET f1 == LoopStep(task[i].f, max_try, hasEvent, cancel)
       IN  IF f1.pc # "get"
           THEN Finish(i, f1, task[i].got) /\ UNCHANGED sent
           ELSE \E resp \in PoolResponses :
                   LET f2 == GetStep(f1, resp, delay)
                       f3 == IF f2.pc = "backoff" THEN BackoffStep(f2) ELSE f2
                   IN  /\ sent' = sent \cup
                              {RequestCookieHeader(app, cookie_headers, image_domain, cookie, ui_cookie)}
                       /\ IF FetchDone(f3) THEN Finish(i, f3, TRUE)
                          ELSE /\ task' = [task EXCEPT ![i].f = f3, ![i].got = TRUE]
                               /\ UNCHANGED <<files, failed_downloads, progress_counter>>
    /\ UNCHANGED <<cancel, fetchVars, unitVars, cfgVars, collected, arch, pc, depth, cookie, result, dirExists, cbz,
                   nsubmitted, ncollected, asked, answer, mkdirFailed>>
    /\ Note

\* the backoff sleep of a worker ends: by timeout or by the flag
WorkerWake(i) ==
    /\ task[i].st = "running"
    /\ task[i].f.pc = "waiting"
    /\ LET f1 == WakeStep(task[i].f, hasEvent, cancel)
       IN  IF FetchDone(f1) THEN Finish(i, f1, task[i].got)
           ELSE task' = [task EXCEPT ![i].f = f1]
                /\ UNCHANGED <<files, failed_downloads, progress_counter>>
    /\ UNCHANGED <<cancel, fetchVars, unitVars, cfgVars, collected, arch, pc, depth, cookie, result, dirExists, cbz,
                   nsubmitted, ncollected, asked, answer, sent, mkdirFailed>>
    /\ Note

Next ==
    \/ SetCancel
    \/ Entry
    \/ MakeDirs
    \/ Submit
    \/ CollectNext
    \/ AfterPool
    \/ Hard
    \/ AnswerYesNo
    \/ AnswerString
    \/ Finalize
    \/ \E i \in Images : WorkerStart(i)
    \/ \E i \in Images : WorkerAttempt(i)
    \/ \E i \in Images : WorkerWake(i)

Spec == Init /\ [][Next]_vars

SpecCookie == InitCookie /\ [][Next]_vars

SpecPool == InitPool /\ [][Next]_vars

SpecStale == InitStale /\ [][Next]_vars

\* ============================================== claims on download_volume
HardEnded ==
    \E i \in Images :
        /\ task[i].st = "done"
        /\ task[i].f.pc = "raised"
        /\ task[i].f.err.kind \in {"blocked_or_retryable", "retryable"}

Written(i) == task[i].st = "done" /\ task[i].f.pc = "returned" /\ task[i].wrote
Absent(i) == task[i].st = "done" /\ task[i].f.pc = "raised" /\ task[i].f.err.kind = "missing"

\* C1 as claimed: a call that finds the flag set returns Cancelled, and a flag
\* that becomes set at any point before the worker pool has finished makes the
\* call return Cancelled, never Success or Failed.
C1_AsClaimed ==
    (pc = "done" /\ cancelBeforePoolEnd) => result = "Cancelled"

\* C1 amended: a call that finds the flag set at its entry check returns
\* Cancelled without creating the directory, submitting a task or sending a
\* request; a flag set before the pool has finished gives Cancelled unless
\* os.makedirs failed after the entry check, which gives Failed.
C1_CancelledUnlessMakedirsFailed ==
    /\ []((pc = "done" /\ cancelBeforePoolEnd) =>
            result = (IF mkdirFailed THEN "Failed" ELSE "Cancelled"))
    /\ [][(pc = "entry" /\ cancel) =>
            /\ pc' = "done" /\ result' = "Cancelled"
            /\ dirExists' = dirExists /\ files' = files
            /\ task' = task /\ sent' = sent]_vars

C1_Witness ==
    /\ pc = "done"
    /\ result = "Cancelled"
    /\ cancelBeforePoolEnd
    /\ ~cancelInPool
    /\ ~dirExists

\* C2: when every image is written or ends 'missing', at least one is written,
\* the flag is not set and the archive step does not fail, download_volume
\* returns Success, the invocation never opened the cookie-retry prompt, and
\* the failure list holds exactly one 'missing' entry per absent image and
\* nothing else.
C2_MissingPagesAreIgnored ==
    ( /\ pc = "done"
      /\ ~cancel
      /\ \A i \in Images : Written(i) \/ Absent(i)
      /\ \E i \in Images : Written(i)
      /\ cbz # "bad" )
    =>
    ( /\ result = "Success"
      /\ ~asked
      /\ \A i \in Images :
            IF Written(i) THEN failed_downloads[i] = <<>>
            ELSE /\ Len(failed_downloads[i]) = 1
                 /\ failed_downloads[i][1].kind = "missing"
                 /\ failed_downloads[i][1].status_code \in {404, 410} )

C2_Witness ==
    /\ pc = "done"
    /\ result = "Success"
    /\ cbz = "ok"
    /\ \E i \in Images : Absent(i)
    /\ \E i \in Images : Written(i)
    /\ ~asked

C4_AsClaimed ==
    (pc = "done" /\ (answer = "no" \/ cancelAtPrompt)) => result = "Failed"

\* C4 amended: declining with the flag not set yields Failed; the flag being set
\* while either prompt is open yields Cancelled when the prompt returns,
\* whatever the answer.
C4_PromptOutcomes ==
    /\ (pc = "done" /\ answer = "no" /\ ~cancel) => result = "Failed"
    /\ (pc = "done" /\ cancelAtPrompt /\ answer # "raise") => result = "Cancelled"

C4_Witness ==
    /\ pc = "done"
    /\ cancelAtPrompt
    /\ answer \in {"empty", "cookie"}
    /\ result = "Cancelled"

\* C5: every image request of a restarted download carries the cookie typed at
\* the prompt in its Cookie header, whatever header the instance holds.
C5_AsClaimed ==
    depth >= 1 => \A h \in sent : h = Hdr(cookie)

\* C6: once the flag is set while the pool is running, the call returns
\* Cancelled, no archive is written, and neither the directory nor a file
\* already in it is removed or replaced.
C6_CancelledPoolLeavesFiles ==
    /\ []((cancelInPool /\ pc = "done") => result = "Cancelled")
    /\ [][cancelInPool =>
            /\ cbz' = cbz
            /\ dirExists => dirExists'
            /\ \A i \in Images : files[i] # NoFile => files'[i] = files[i]]_vars

C6_Witness ==
    /\ cancelInPool
    /\ pc = "done"
    /\ result = "Cancelled"
    /\ cbz = "none"
    /\ \E i \in Images : files[i] # NoFile
    /\ \E i \in Images : task[i].f.pc = "cancelled" /\ task[i].got

\* ===================================================== claims on the fetcher

\* C7: robust_download_image never retries a 'missing' classification: once a
\* GET is answered 404 or 410 (by the response or by the client's exception)
\* the call has raised the 'missing' error with that status, that GET is the
\* last one issued (as many GETs as attempts started) and no backoff sleep
\* was entered for that attempt, whatever max_try is.
C7_MissingNeverRetried ==
    lastResp.status \in {404, 410} =>
        /\ fs.pc = "raised"
        /\ fs.err = Err("missing", lastResp.status)
        /\ gets = fs.attempt
        /\ nsleeps = gets - 1

C7_Witness ==
    /\ lastResp.status = 404
    /\ fs.pc = "raised"
    /\ gets = 2
    /\ max_try = DefaultMaxTry

\* C8: the sleep requested after failed attempt k is min(delay * 2^k, 60) exactly
\* when the failure's status code is 403 or 429 and delay * k for every other
\* non-missing failure (HTML body and undecodable body included); while every
\* answer so far was a 429 the durations are non-decreasing and at most 60.
C8_BackoffSchedule ==
    fs.pc = "backoff" =>
        /\ fs.sleep_time =
              IF lastResp.status \in {403, 429}
              THEN (IF delay * (2 ^ fs.attempt) <= 60 THEN delay * (2 ^ fs.attempt) ELSE 60)
              ELSE delay * fs.attempt
        /\ all429 => (prevSleep <= fs.sleep_time /\ fs.sleep_time <= 60)

C8_Witness ==
    /\ fs.pc = "backoff"
    /\ all429
    /\ prevSleep = 32
    /\ fs.sleep_time = 60

ExpectedError(resp) ==
    IF resp.via = "exc" \/ resp.status >= 400
    THEN Err(classify_download_failure(resp.status, resp.message), resp.status)
    ELSE IF resp.body = "html" THEN Err("blocked_or_retryable", NoStatus)
    ELSE Err("retryable", NoStatus)

\* C10: at most max_try GETs are issued; a call that raises a non-missing
\* error has used all max_try attempts and raises the error of its last
\* failed attempt (same kind and status code), or the generic 'retryable'
\* error when max_try = 0 and nothing was recorded.
C10_Exhaustion ==
    /\ gets <= max_try
    /\ (fs.pc = "raised" /\ fs.err.kind # "missing") =>
          /\ gets = max_try
          /\ fs.attempt = max_try
          /\ IF max_try = 0 THEN fs.err = Err("retryable", NoStatus)
             ELSE fs.err = ExpectedError(lastResp)

C10_Witness ==
    /\ fs.pc = "raised"
    /\ max_try = DefaultMaxTry
    /\ gets = max_try
    /\ lastResp.body = "garbage"
    /\ fs.err = Err("retryable", NoStatus)

\* ================================================= classify_download_failure
MaxPieces == 2

\* status codes passed by the callers: None, success and error codes
StatusInputs == {NoStatus, 200, 401, 403, 404, 410, 418, 429, 500, 502, 503, 504, 599}

\* pieces of the messages passed by the callers (lines 179, 197, 241 and 852)
Fragments ==
    { <<"C", "l", "o", "u", "d">>,
      <<"F", "L", "A", "R", "E">>,
      <<"J", "u", "s", "t", " ", "a", " ">>,
      <<"M", "o", "m", "e", "n", "t">>,
      <<"r", "e", "C", "A", "P", "T", "C", "H", "A">>,
      <<"A", "t", "t", "e", "n", "t", "i", "o", "n", " ", "R", "e", "q", "u", "i", "r", "e", "d">>,
      <<"t", "i", "m", "e", "d", " ", "o", "u", "t">> }

RECURSIVE Join(_)
Join(pieces) == IF pieces = <<>> THEN <<>> ELSE Head(pieces) \o Join(Tail(pieces))

MessageInputs ==
    {NoMessage} \cup {Join(ps) : ps \in UNION {[1..n -> Fragments] : n \in 0..MaxPieces}}

ClassifyInit ==
    /\ cancel = FALSE
    /\ FetchIdle
    /\ VolIdle
    /\ clsStatus \in StatusInputs
    /\ clsMessage \in MessageInputs
    /\ clsKind = "unset"
    /\ LockIdle /\ NameIdle /\ ParseIdle /\ PureIdle /\ LateIdle

Classify ==
    /\ clsKind = "unset"
    /\ clsKind' = classify_download_failure(clsStatus, clsMessage)
    /\ UNCHANGED <<cancel, fetchVars, volVars, clsStatus, clsMessage, lockVars, nameVars, parseVars,
                   pureVars, lateVars>>

SpecClassify == ClassifyInit /\ [][Classify]_vars

\* the reference of the classifier, on the text as given
SameLetter(a, b) ==
    a = b \/ \E k \in 1..Len(UpperCase) : {a, b} = {UpperCase[k], LowerCase[k]}

ContainsIgnoringCase(marker, text) ==
    \E k \in 0..(Len(text) - Len(marker)) :
        \A j \in 1..Len(marker) : SameLetter(text[k + j], marker[j])

ChallengeMarker(message) ==
    /\ message # NoMessage
    /\ \E marker \in Markers : ContainsIgnoringCase(marker, message)

ClassifierReference(status_code, message) ==
    IF status_code \in {404, 410} THEN "missing"
    ELSE IF status_code \in {401, 403, 429, 500, 502, 503, 504} THEN "blocked_or_retryable"
    ELSE IF ChallengeMarker(message) THEN "blocked_or_retryable"
    ELSE "retryable"

\* C11: for every status code (None included) and every message (None and the
\* empty text included) classify_download_failure returns a value, and that
\* value is 'missing' for 404 and 410, else 'blocked_or_retryable' for 401,
\* 403, 429, 500, 502, 503 and 504, else 'blocked_or_retryable' when the
\* message contains a challenge marker in any case, else 'retryable'; the
\* status code decides before the markers are looked at.
C11_ClassifierReference ==
    clsKind # "unset" =>
        /\ clsKind \in {"missing", "blocked_or_retryable", "retryable"}
        /\ clsKind = ClassifierReference(clsStatus, clsMessage)

C11_Witness ==
    /\ clsKind = "missing"
    /\ clsStatus = 410
    /\ ChallengeMarker(clsMessage)
    /\ clsMessage # Lower(clsMessage)

\* ===================================================== claims on the pool
PoolEnded == pc \in {"hard", "ask_yes_no", "ask_string", "finalize"}

WriteFailed(i) == task[i].st = "done" /\ task[i].f.pc = "returned" /\ ~task[i].wrote

\* C12 as claimed: download_image never hands an exception to the pool.
C12_AsClaimed == \A i \in Images : ~Propagated(task[i].f)

\* C12 amended: once the pool has ended without the flag set, every image has
\* run to its own end whatever happened to the others: an image whose URL is
\* well formed was requested, and it is written exactly when its own fetch
\* returned and its own file could be written, else it has exactly one failure
\* entry, of its own error; an image whose URL urlparse rejects raised out of
\* download_image (line 801 is outside the try block), was not requested, and
\* has exactly the 'retryable' entry download_volume records for it.
C12_SiblingsIndependent ==
    PoolEnded =>
        \A i \in Images :
            /\ task[i].st = "done"
            /\ i \in collected
            /\ IF urls[i] = "bad"
               THEN /\ Propagated(task[i].f)
                    /\ ~task[i].got
                    /\ failed_downloads[i] = <<Failure("retryable", NoStatus)>>
               ELSE /\ task[i].got
                    /\ task[i].f.pc \in {"returned", "raised"}
                    /\ Written(i) => (files[i] = depth /\ failed_downloads[i] = <<>>)
                    /\ WriteFailed(i) =>
                          failed_downloads[i] = <<Failure("retryable", NoStatus)>>
                    /\ task[i].f.pc = "raised" =>
                          failed_downloads[i] =
                              <<Failure(task[i].f.err.kind, task[i].f.err.status)>>

C12_Witness ==
    /\ pc = "hard"
    /\ ~cancel
    /\ \E i, j \in Images :
          /\ i < j
          /\ Propagated(task[i].f)
          /\ i \in collected
          /\ Written(j)

\* C13: the progress counter is incremented once for every image that
\* completes, written or failed for good, so that a pool that has finished
\* without cancellation has reported as many completed images as the chapter has.
C13_AsClaimed ==
    (PoolEnded /\ ~cancel) => progress_counter = NImages

\* ============================== the mutex of download_volume (lines 1165-1179)
\* Each download_image call of the pool, at the grain of its accesses to the
\* structures shared by the workers: the failure list and the progress counter.
LockInit ==
    /\ cancel = FALSE
    /\ FetchIdle
    /\ VolIdle
    /\ ClsIdle /\ NameIdle /\ ParseIdle /\ PureIdle /\ LateIdle
    /\ lpc = [i \in Images |-> "fetch"]
    /\ lkind = [i \in Images |-> "none"]
    /\ lock = NoHolder
    /\ lockCounter = 0
    /\ lockList = <<>>

notLock == <<cancel, fetchVars, volVars, clsVars, nameVars, parseVars, pureVars, lateVars>>

\* lines 808-811 and 831-853: the fetch ends, with the file written or with an error
LockFetchEnds(i) ==
    /\ lpc[i] = "fetch"
    /\ \E k \in {"written", "missing", "blocked_or_retryable", "retryable", "cancelled"} :
        /\ lkind' = [lkind EXCEPT ![i] = k]
        /\ lpc' = [lpc EXCEPT ![i] = IF k = "written" THEN "acquire" ELSE "append"]
    /\ UNCHANGED <<notLock, lock, lockCounter, lockList>>

\* register_failure, line 765: failed_downloads.append
LockAppend(i) ==
    /\ lpc[i] = "append"
    /\ lockList' = Append(lockList, Failure(lkind[i], NoStatus))
    /\ lpc' = [lpc EXCEPT ![i] = "done"]
    /\ UNCHANGED <<notLock, lkind, lock, lockCounter>>

\* progress_callback, line 1176: with lock
LockAcquire(i) ==
    /\ lpc[i] = "acquire"
    /\ lock = NoHolder
    /\ lock' = i
    /\ lpc' = [lpc EXCEPT ![i] = "incr"]
    /\ UNCHANGED <<notLock, lkind, lockCounter, lockList>>

\* line 1177: progress_counter["done"] += 1
LockIncrement(i) ==
    /\ lpc[i] = "incr"
    /\ lockCounter' = lockCounter + 1
    /\ lpc' = [lpc EXCEPT ![i] = "report"]
    /\ UNCHANGED <<notLock, lkind, lock, lockList>>

\* lines 1178-1179: update_progress, then the with block releases the lock
LockRelease(i) ==
    /\ lpc[i] = "report"
    /\ lock' = NoHolder
    /\ lpc' = [lpc EXCEPT ![i] = "done"]
    /\ UNCHANGED <<notLock, lkind, lockCounter, lockList>>

LockNext ==
    \E i \in Images :
        \/ LockFetchEnds(i)
        \/ LockAppend(i)
        \/ LockAcquire(i)
        \/ LockIncrement(i)
        \/ LockRelease(i)

SpecLock == LockInit /\ [][LockNext]_vars

\* C14: a worker that is about to mutate the failure list or the progress
\* counter holds the chapter's mutex, so no two workers are at a mutation of
\* either structure at the same time.
C14_AsClaimed ==
    /\ \A i \in Images : lpc[i] \in {"append", "incr"} => lock = i
    /\ \A i, j \in Images :
          (i # j /\ lpc[i] \in {"append", "incr"}) => lpc[j] \notin {"append", "incr"}

\* ============================================ claims on the archiving step
\* the invocation ended past its pool with no hard failure and the flag never set
FinalizeRan ==
    /\ pc = "done"
    /\ ~cancel
    /\ \A i \in Images : task[i].st = "done" /\ i \in collected
    /\ HardFailures(failed_downloads) = {}

C16_AsClaimed ==
    (pc = "done" /\ result = "Success") => \E i \in Images : task[i].f.pc = "returned"

\* the folder as archive_cbz found it is still there with all its files
FolderIntact == dirExists = arch.before.exists /\ files = arch.before.files

\* C17: whenever the verification of the written archive detects corruption,
\* by raising or by reporting a corrupt entry, archive_cbz returns false and the
\* source folder is left as it was.
C17_AsClaimed ==
    (arch.called /\ arch.outcome.verify \in {"raises", "reports"}) =>
        (arch.returned = "false" /\ FolderIntact)

\* C18: archive_cbz removes the source folder exactly when it returns true, it
\* returns true exactly when the archive verified and is larger than 10000
\* bytes, and in every other outcome it returns false with the folder and its
\* files unchanged.
C18_AsClaimed ==
    arch.called =>
        /\ (arch.returned = "true") <=> ~dirExists
        /\ (arch.returned = "true") <=>
              (arch.outcome.verify = "clean" /\ arch.outcome.size > 10000)
        /\ arch.returned # "true" => (arch.returned = "false" /\ FolderIntact)

\* ================================== the filenames of download_image (800-820)
MaxPages == 11

DigitChars == <<"0", "1", "2", "3", "4", "5", "6", "7", "8", "9">>

\* str(n) for n >= 0
RECURSIVE Str(_)
Str(n) == IF n < 10 THEN <<DigitChars[n + 1]>> ELSE Str(n \div 10) \o <<DigitChars[(n % 10) + 1]>>

\* str.zfill(width)
RECURSIVE Zfill(_, _)
Zfill(text, width) == IF Len(text) >= width THEN text ELSE Zfill(<<"0">> \o text, width)

\* variant: no padding
NumberLenOne(n) == 1

\* download_volume line 1161: max(1, len(str(len(images))))
number_len(n) == IF Len(Str(n)) >= 1 THEN Len(Str(n)) ELSE 1

\* paths of image URLs, as urlparse(normalized_url).path gives them
UrlPaths ==
    { <<"/", "m", "/", "p", ".", "j", "p", "g">>,
      <<"/", "m", "/", "p", ".", "P", "N", "G">>,
      <<"/", "m", "/", "p", ".", "w", "e", "b", "p">>,
      <<"/", "m", "/", "p", ".", "W", "e", "b", "P">>,
      <<"/", "m", "/", "p", ".", "g", "i", "f">>,
      <<"/", "m", ".", "x", "/", "p">>,
      <<"/", "m", "/", "p">> }

\* text.rsplit(".", 1)[-1]
RECURSIVE AfterLastDot(_)
AfterLastDot(text) ==
    IF text = <<>> \/ text[Len(text)] = "." THEN <<>>
    ELSE AfterLastDot(SubSeq(text, 1, Len(text) - 1)) \o <<text[Len(text)]>>

KnownExtensions ==
    {<<"j", "p", "g">>, <<"j", "p", "e", "g">>, <<"p", "n", "g">>, <<"w", "e", "b", "p">>, <<"a", "v", "i", "f">>}

Jpg == <<"j", "p", "g">>
DotWebp == <<".", "w", "e", "b", "p">>

\* lines 801-804: the extension of the file
Extension(path) ==
    LET parsed_path == Lower(path)
        ext == IF \E k \in 1..Len(parsed_path) : parsed_path[k] = "."
               THEN AfterLastDot(parsed_path) ELSE Jpg
    IN  IF ext \in KnownExtensions THEN ext ELSE Jpg

\* text.endswith(suffix)
EndsWith(text, suffix) ==
    /\ Len(text) >= Len(suffix)
    /\ SubSeq(text, Len(text) - Len(suffix) + 1, Len(text)) = suffix

\* lines 805-820: the name of the file the call leaves in the folder (the part
\* after the folder, which is the same for every image of the chapter)
OutputFilename(i, width, path, webp2jpg_enabled, converts) ==
    LET filename == Zfill(Str(i + 1), width) \o <<".">> \o Extension(path)
    IN  IF webp2jpg_enabled /\ EndsWith(Lower(filename), DotWebp) /\ converts
        THEN SubSeq(filename, 1, Len(filename) - 5) \o <<".">> \o Jpg
        ELSE filename

\* the characters of the filenames in code point order
CharOrder == <<".", "0", "1", "2", "3", "4", "5", "6", "7", "8", "9", "a", "b", "c", "d", "e", "f", "g", "h", "i", "j", "k", "l", "m", "n", "o", "p", "q", "r", "s", "t", "u", "v", "w", "x", "y", "z">>
Ord(c) == CHOOSE k \in 1..Len(CharOrder) : CharOrder[k] = c

\* a < b for str, as sorted() compares (archive_cbz line 721)
RECURSIVE LexLess(_, _)
LexLess(a, b) ==
    IF b = <<>> THEN FALSE
    ELSE IF a = <<>> THEN TRUE
    ELSE IF Ord(Head(a)) # Ord(Head(b)) THEN Ord(Head(a)) < Ord(Head(b))
    ELSE LexLess(Tail(a), Tail(b))

NameInit ==
    /\ cancel = FALSE
    /\ FetchIdle
    /\ VolIdle
    /\ ClsIdle /\ LockIdle /\ ParseIdle /\ PureIdle /\ LateIdle
    /\ nameN \in 1..MaxPages
    /\ nameArgs \in {<<a, b>> : a, b \in [i : 0..(MaxPages - 1), path : UrlPaths, converts : BOOLEAN]}
    /\ nameArgs[1].i < nameArgs[2].i
    /\ nameArgs[2].i < nameN
    /\ nameConv \in {"off", "on"}
    /\ nameOut = <<>>

\* the two download_image calls name their files
NameFiles ==
    /\ nameOut = <<>>
    /\ nameOut' = [k \in 1..2 |->
                     OutputFilename(nameArgs[k].i, number_len(nameN), nameArgs[k].path,
                                    nameConv = "on", nameArgs[k].converts)]
    /\ UNCHANGED <<cancel, fetchVars, volVars, clsVars, lockVars, parseVars, pureVars, lateVars,
                   nameN, nameArgs, nameConv>>

SpecNames == NameInit /\ [][NameFiles]_vars

\* C19: in a chapter of n images the file of position i is named strictly
\* before the file of position j in the order sorted() uses whenever i < j,
\* whatever the two extensions are and whether or not a WebP file is converted
\* to JPG; so the two names differ and the archive holds them in page order.
C19_NamesInPageOrder ==
    nameOut # <<>> =>
        /\ LexLess(nameOut[1], nameOut[2])
        /\ nameOut[1] # nameOut[2]
        /\ ~LexLess(nameOut[2], nameOut[1])

C19_Witness ==
    /\ nameOut # <<>>
    /\ nameN >= 10
    /\ nameArgs[1].i = 1
    /\ nameArgs[2].i = 9
    /\ nameOut[1] = <<"0", "2", ".", "j", "p", "g">>
    /\ nameOut[2] = <<"1", "0", ".", "w", "e", "b", "p">>
    /\ nameConv = "on"

\* ================================ parse_manga_data_from_html (lines 862-935)
MaxAnchors == 3

MaxLinks == 2

\* A URL is its scheme, its host as written and its path; an href without a
\* scheme or without a host has the empty one.
HostFr == <<"s", "u", "s", "h", "i", "s", "c", "a", "n", ".", "f", "r">>
HostNet == <<"s", "u", "s", "h", "i", "s", "c", "a", "n", ".", "n", "e", "t">>
DotFr == <<".">> \o HostFr
DotNet == <<".">> \o HostNet

\* catalogue URLs as REGEX_URL admits them (line 288)
FrPage == [scheme |-> "https", host |-> HostFr, path |-> "/catalogue/x/"]
PageUrls == {FrPage, [scheme |-> "https", host |-> HostNet, path |-> "/catalogue/x/"]}

\* variant: any host that mentions the site
HostMentionsSite(host) ==
    LET value == Lower(host)
    IN  IF Contains(HostFr, value) THEN "fr"
        ELSE IF Contains(HostNet, value) THEN "net" ELSE ""

\* lines 125-134
get_sushiscan_domain_from_host(host) ==
    LET value == Lower(host)
    IN  IF value = <<>> THEN ""
        ELSE IF EndsWith(value, DotFr) \/ value = HostFr THEN "fr"
        ELSE IF EndsWith(value, DotNet) \/ value = HostNet THEN "net"
        ELSE ""

\* expected_domain, line 883; no path of PageUrls holds "sushiscan.net", so
\* the test of the whole URL is the test of its host
ExpectedDomain ==
    LET d == get_sushiscan_domain_from_host(pageUrl.host)
    IN  IF d # "" THEN d
        ELSE IF Contains(HostNet, pageUrl.host) THEN "net" ELSE "fr"

\* hosts an anchor may name: the two sites, a subdomain, a host written in
\* capitals, and three hosts that only look like the site
SiteHosts ==
    [fr |-> {HostFr, <<"S", "u", "s", "h", "i", "s", "c", "a", "n", ".", "F", "R">>},
     net |-> {HostNet, <<"c", "d", "n", ".", "s", "u", "s", "h", "i", "s", "c", "a", "n", ".", "n", "e", "t">>}]
ForeignHosts == {<<"x", "s", "u", "s", "h", "i", "s", "c", "a", "n", ".", "f", "r">>, <<"s", "u", "s", "h", "i", "s", "c", "a", "n", ".", "f", "r", ".", "x", ".", "o", "r", "g">>, <<"x", ".", "o", "r", "g">>}

\* href attributes and the text inside the anchors, as the page gives them
Href(scheme, host, path) == [scheme |-> scheme, host |-> host, path |-> path]
Hrefs ==
    {Href("", <<>>, "/a"), Href("https", HostFr, "/a"), Href("", <<>>, "/b"),
     Href("https", <<"x", ".", "o", "r", "g">>, "/a")}
LinkHrefs ==
    {Href("", <<>>, "/a"), Href("http", HostFr, "/a"), Href("", HostNet, "/a"),
     Href("mailto", <<>>, "a")}
        \cup {Href("https", h, "/a") : h \in SiteHosts.fr \cup SiteHosts.net \cup ForeignHosts}
RawLabels == {"", "Volume 1", "Tome 2"}

\* an anchor of the first structure (followed by span.chapternum) or of the
\* chapter lists the fallback selects
Anchors == [shape : {"chapternum", "listing"}, href : Hrefs, label : RawLabels]
LinkAnchors == [shape : {"chapternum", "listing"}, href : LinkHrefs, label : {"", "Tome 2"}]

\* urljoin(base_url, href.strip()) with base_url = "https://sushiscan.<domain>/";
\* an href with a scheme is kept, one that starts with "//" takes the scheme
\* of the base, a path takes its scheme and host
UrlJoin(href) ==
    LET expected_host == IF ExpectedDomain = "fr" THEN HostFr ELSE HostNet
    IN  IF href.scheme # "" THEN href
        ELSE IF href.host # <<>> THEN Href("https", href.host, href.path)
        ELSE Href("https", expected_host, href.path)

\* get_sushiscan_domain_from_host(urlparse(full_link).hostname)
LinkDomain(link) == get_sushiscan_domain_from_host(link.host)

\* normalize_tome_label(strip_html_tags(html.unescape(label))), lines 107-112
CleanLabel(label) == IF label = "Volume 1" THEN "Tome 1" ELSE label

\* lines 894-901 and 905-915: the pairs of the anchors of one structure
RECURSIVE PairsOf(_, _)
PairsOf(as, shape) ==
    IF as = <<>> THEN <<>>
    ELSE LET a == Head(as)
             full_link == UrlJoin(a.href)
             rest == PairsOf(Tail(as), shape)
         IN  IF a.shape # shape THEN rest
             ELSE IF LinkDomain(full_link) # ExpectedDomain THEN rest
             ELSE IF CleanLabel(a.label) = "" THEN rest
             ELSE <<[label |-> CleanLabel(a.label), link |-> full_link]>> \o rest

\* variant: every pair kept
KeepAll(pairs, seen) == pairs

\* lines 918-924: the first pair of every link
RECURSIVE UniquePairs(_, _)
UniquePairs(pairs, seen) ==
    IF pairs = <<>> THEN <<>>
    ELSE IF Head(pairs).link \in seen THEN UniquePairs(Tail(pairs), seen)
    ELSE <<Head(pairs)>> \o UniquePairs(Tail(pairs), seen \cup {Head(pairs).link})

\* variant: the list left in document order
KeepOrder(q) == q

\* list.reverse()
Reverse(q) == [k \in 1..Len(q) |-> q[Len(q) + 1 - k]]

\* variant: the anchors of the chapter lists always added
ParseBothStructures(as) ==
    LET unique_pairs == UniquePairs(PairsOf(as, "chapternum") \o PairsOf(as, "listing"), {})
    IN  IF unique_pairs = <<>> THEN [state |-> "raised"]
        ELSE [state |-> "returned", pairs |-> Reverse(unique_pairs)]

parse_manga_data_from_html(as) ==
    LET first == PairsOf(as, "chapternum")
        pairs == IF first = <<>> THEN PairsOf(as, "listing") ELSE first
        unique_pairs == UniquePairs(pairs, {})
    IN  IF unique_pairs = <<>> THEN [state |-> "raised"]
        ELSE [state |-> "returned", pairs |-> Reverse(unique_pairs)]

ParseInit ==
    /\ cancel = FALSE
    /\ FetchIdle
    /\ VolIdle
    /\ ClsIdle /\ LockIdle /\ NameIdle /\ PureIdle /\ LateIdle
    /\ pageUrl = FrPage
    /\ anchors \in UNION {[1..n -> Anchors] : n \in 0..MaxAnchors}
    /\ parsed = NotParsed

\* a page of either site whose anchors name hosts of every kind
LinksInit ==
    /\ cancel = FALSE
    /\ FetchIdle
    /\ VolIdle
    /\ ClsIdle /\ LockIdle /\ NameIdle /\ PureIdle /\ LateIdle
    /\ pageUrl \in PageUrls
    /\ anchors \in UNION {[1..n -> LinkAnchors] : n \in 0..MaxLinks}
    /\ parsed = NotParsed

Parse ==
    /\ parsed = NotParsed
    /\ parsed' = parse_manga_data_from_html(anchors)
    /\ UNCHANGED <<cancel, fetchVars, volVars, clsVars, lockVars, nameVars, pureVars, lateVars,
                   pageUrl, anchors>>

SpecParse == ParseInit /\ [][Parse]_vars
SpecLinks == LinksInit /\ [][Parse]_vars

\* the structure whose anchors the call uses, and the anchors it accepts
UsedShape ==
    IF \E k \in 1..Len(anchors) :
          /\ anchors[k].shape = "chapternum"
          /\ CleanLabel(anchors[k].label) # ""
          /\ LinkDomain(UrlJoin(anchors[k].href)) = ExpectedDomain
    THEN "chapternum" ELSE "listing"

Accepted(k) ==
    /\ CleanLabel(anchors[k].label) # ""
    /\ anchors[k].shape = UsedShape
    /\ LinkDomain(UrlJoin(anchors[k].href)) = ExpectedDomain

\* C20: the pairs returned hold no URL twice, and every URL of an accepted
\* anchor is returned in exactly one pair, with the label of the first accepted
\* anchor of that URL in document order.
C20_UniqueFirstWins ==
    parsed.state = "returned" =>
        LET links == [k \in 1..Len(anchors) |-> UrlJoin(anchors[k].href)]
            accepted == {k \in 1..Len(anchors) : Accepted(k)}
        IN  /\ \A k, l \in 1..Len(parsed.pairs) :
                  parsed.pairs[k].link = parsed.pairs[l].link => k = l
            /\ \A k \in accepted :
                  LET first == CHOOSE f \in accepted :
                                  /\ links[f] = links[k]
                                  /\ \A g \in accepted : g < f => links[g] # links[k]
                  IN  /\ Cardinality({p \in 1..Len(parsed.pairs) :
                                         parsed.pairs[p].link = links[k]}) = 1
                      /\ \E p \in 1..Len(parsed.pairs) :
                            /\ parsed.pairs[p].link = links[k]
                            /\ parsed.pairs[p].label = CleanLabel(anchors[first].label)
            /\ \A p \in 1..Len(parsed.pairs) :
                  \E k \in accepted : links[k] = parsed.pairs[p].link

C20_Witness ==
    /\ parsed.state = "returned"
    /\ Len(anchors) = 3
    /\ Len(parsed.pairs) = 2
    /\ \E k, l \in 1..Len(anchors) :
          /\ k < l
          /\ Accepted(k) /\ Accepted(l)
          /\ anchors[k].href # anchors[l].href
          /\ UrlJoin(anchors[k].href) = UrlJoin(anchors[l].href)
          /\ anchors[k].label = "Volume 1"
          /\ anchors[l].label = "Tome 2"
          /\ \E p \in 1..Len(parsed.pairs) :
                parsed.pairs[p] = [label |-> "Tome 1", link |-> UrlJoin(anchors[k].href)]

\* the accepted anchors that are the first of their URL in document order
FirstAccepted ==
    LET links == [k \in 1..Len(anchors) |-> UrlJoin(anchors[k].href)]
        accepted == {k \in 1..Len(anchors) : Accepted(k)}
    IN  {k \in accepted : \A g \in accepted : g < k => links[g] # links[k]}

\* C21: the list returned holds one pair per accepted URL, placed by the
\* document position of the first accepted anchor of that URL, last first:
\* the anchors are de-duplicated in document order and the result reversed.
C21_ReverseOfUnique ==
    parsed.state = "returned" =>
        LET firsts == FirstAccepted
        IN  /\ Len(parsed.pairs) = Cardinality(firsts)
            /\ \A k \in firsts :
                  LET rank == Cardinality({f \in firsts : f <= k})
                      p == Len(parsed.pairs) + 1 - rank
                  IN  parsed.pairs[p] = [label |-> CleanLabel(anchors[k].label),
                                         link |-> UrlJoin(anchors[k].href)]

C21_Witness ==
    /\ parsed.state = "returned"
    /\ Len(anchors) = 3
    /\ Accepted(1) /\ Accepted(2) /\ Accepted(3)
    /\ UrlJoin(anchors[1].href) = UrlJoin(anchors[3].href)
    /\ UrlJoin(anchors[1].href) # UrlJoin(anchors[2].href)
    /\ Len(parsed.pairs) = 2
    /\ parsed.pairs[1].link = UrlJoin(anchors[2].href)
    /\ parsed.pairs[2].link = UrlJoin(anchors[1].href)

\* the hosts of the site the catalogue page was requested from
RequestHosts == IF pageUrl.host = HostFr THEN SiteHosts.fr ELSE SiteHosts.net

\* C22: every link returned has a scheme and a host, and the host is one of the
\* site the page was requested from; no anchor whose resolved host is another
\* one (the other site, or a host that only resembles the site) is returned,
\* whichever of the two structures the pairs come from.
C22_LinksStayOnSite ==
    parsed.state = "returned" =>
        /\ \A p \in 1..Len(parsed.pairs) :
              /\ parsed.pairs[p].link.scheme \in {"http", "https"}
              /\ parsed.pairs[p].link.host \in RequestHosts
        /\ \A k \in 1..Len(anchors) :
              UrlJoin(anchors[k].href).host \notin RequestHosts =>
                  \A p \in 1..Len(parsed.pairs) :
                      parsed.pairs[p].link # UrlJoin(anchors[k].href)

C22_Witness ==
    /\ parsed.state = "returned"
    /\ pageUrl.host = HostNet
    /\ Len(anchors) = 2
    /\ anchors[1].shape = "listing" /\ anchors[2].shape = "listing"
    /\ anchors[1].label = "Tome 2" /\ anchors[2].label = "Tome 2"
    /\ anchors[1].href.host \in ForeignHosts \cup SiteHosts.fr
    /\ anchors[2].href = Href("", <<>>, "/a")
    /\ Len(parsed.pairs) = 1
    /\ parsed.pairs[1].link = Href("https", HostNet, "/a")

\* the anchors of one structure that pass the host and the label tests
AcceptedOf(shape) ==
    {k \in 1..Len(anchors) :
        /\ anchors[k].shape = shape
        /\ UrlJoin(anchors[k].href).host \in RequestHosts
        /\ anchors[k].label # ""}

LinksOf(ks) == {UrlJoin(anchors[k].href) : k \in ks}

\* C23: the call raises exactly when no anchor of either structure is
\* accepted, and a list it returns is never empty; the list holds the links of
\* the first structure whenever that structure has an accepted anchor, and the
\* links of the chapter lists only when it has none.
C23_NeverEmptyFallbackOnlyThen ==
    parsed # NotParsed =>
        /\ parsed.state = "raised" <=>
              (AcceptedOf("chapternum") = {} /\ AcceptedOf("listing") = {})
        /\ parsed.state = "returned" =>
              /\ parsed.pairs # <<>>
              /\ {parsed.pairs[p].link : p \in 1..Len(parsed.pairs)} =
                    IF AcceptedOf("chapternum") # {}
                    THEN LinksOf(AcceptedOf("chapternum"))
                    ELSE LinksOf(AcceptedOf("listing"))

C23_Witness ==
    /\ parsed.state = "returned"
    /\ Len(anchors) = 2
    /\ anchors[1].shape = "chapternum"
    /\ anchors[1].label = "Tome 2"
    /\ anchors[1].href.host \in ForeignHosts
    /\ anchors[2].shape = "listing"
    /\ AcceptedOf("chapternum") = {}
    /\ AcceptedOf("listing") = {2}
    /\ Len(parsed.pairs) = 1

\* ===================================== normalize_image_url (lines 115-122)
\* str.strip()
RECURSIVE Strip(_)
Strip(text) ==
    IF text = <<>> THEN <<>>
    ELSE IF Head(text) = " " THEN Strip(Tail(text))
    ELSE IF text[Len(text)] = " " THEN Strip(SubSeq(text, 1, Len(text) - 1))
    ELSE text

\* text.startswith(prefix)
StartsWith(text, prefix) ==
    /\ Len(text) >= Len(prefix)
    /\ SubSeq(text, 1, Len(prefix)) = prefix

\* raw.replace("http://", "https://")
RECURSIVE ReplaceHttp(_)
ReplaceHttp(raw) ==
    IF raw = <<>> THEN <<>>
    ELSE IF StartsWith(raw, <<"h", "t", "t", "p", ":", "/", "/">>)
         THEN <<"h", "t", "t", "p", "s", ":", "/", "/">> \o ReplaceHttp(SubSeq(raw, 8, Len(raw)))
    ELSE <<Head(raw)>> \o ReplaceHttp(Tail(raw))

normalize_image_url(url) ==
    LET raw == Strip(url)
    IN  IF raw = <<>> THEN <<>>
        ELSE IF StartsWith(raw, <<"/", "/">>) THEN <<"h", "t", "t", "p", "s", ":">> \o raw
        ELSE ReplaceHttp(raw)

\* the pieces the URLs given to the function are made of
UrlFragments ==
    { <<"/", "/">>, <<"h", "t", "t", "p", ":", "/", "/">>, <<"h", "t", "t", "p", "s", ":", "/", "/">>, <<"H", "T", "T", "P", ":", "/", "/">>, <<"h", "/", "p", ".", "j", "p", "g">>, <<" ">> }

UrlInputs == {Join(ps) : ps \in UNION {[1..n -> UrlFragments] : n \in 0..MaxPieces}}

NormalizeInit ==
    /\ cancel = FALSE
    /\ FetchIdle
    /\ VolIdle
    /\ ClsIdle /\ LockIdle /\ NameIdle /\ ParseIdle /\ LateIdle
    /\ normIn \in UrlInputs
    /\ normRuns = <<>>
    /\ imgPage = NotCalled /\ imgOut = NotCalled
    /\ probeIn = NotCalled /\ probeOut = NotCalled

\* one more call, on the string itself and then on what the call before returned
Normalize ==
    /\ Len(normRuns) < 2
    /\ normRuns' = Append(normRuns,
                          normalize_image_url(IF normRuns = <<>> THEN normIn
                                              ELSE normRuns[Len(normRuns)]))
    /\ UNCHANGED <<cancel, fetchVars, volVars, clsVars, lockVars, nameVars, parseVars, lateVars,
                   normIn, imgPage, imgOut, probeIn, probeOut>>

SpecNormalize == NormalizeInit /\ [][Normalize]_vars

\* C24: a second call returns what the first call returned, whatever the
\* string is, and a string that starts with "//" comes back with "https:" put
\* in front of it.
C24_AsClaimed ==
    /\ Len(normRuns) = 2 => normRuns[2] = normRuns[1]
    /\ (Len(normRuns) >= 1 /\ StartsWith(normIn, <<"/", "/">>)) =>
           normRuns[1] = <<"h", "t", "t", "p", "s", ":">> \o Strip(normIn)

\* ================================= get_images.extract_images (lines 978-1073)
MaxCandidates == 2

PARASITE_KEYWORDS ==
    { <<"a", "d", "s">>,
      <<"s", "p", "o", "n", "s", "o", "r">>,
      <<"b", "a", "n", "n", "e", "r">>,
      <<"f", "o", "o", "t", "e", "r">>,
      <<"c", "o", "v", "e", "r">>,
      <<"l", "o", "g", "o">>,
      <<"p", "u", "b">> }

\* lines 978-999
clean_parasites(images, domain) ==
    IF domain # "fr" THEN images
    ELSE SelectSeq(images,
                   LAMBDA img :
                       /\ ~\E keyword \in PARASITE_KEYWORDS : Contains(keyword, Lower(img))
                       /\ ~Contains(<<"s", "u", "s", "h", "i", "s", "c", "a", "n", ".", "f", "r", "/", "w", "p", "-", "c", "o", "n", "t", "e", "n", "t", "/", "u", "p", "l", "o", "a", "d", "s", "/">>, img))

\* list(dict.fromkeys(img_urls))
RECURSIVE FromKeys(_, _)
FromKeys(img_urls, seen) ==
    IF img_urls = <<>> THEN <<>>
    ELSE IF Head(img_urls) \in seen THEN FromKeys(Tail(img_urls), seen)
    ELSE <<Head(img_urls)>> \o FromKeys(Tail(img_urls), seen \cup {Head(img_urls)})

\* [normalize_image_url(img) for img in images]
Normalized(images) == [k \in 1..Len(images) |-> normalize_image_url(images[k])]

\* lines 1001-1073: the list returned and the step that returned it
extract_images(page) ==
    LET domain == page.domain
        json_images == Normalized(page.json.images)
        reader_images == Normalized(page.reader.images)
        img_urls == FromKeys(Normalized(page.regex), {})
    IN  IF page.json.kind = "list" /\ json_images # <<>>
        THEN [state |-> "returned", step |-> 1, images |-> clean_parasites(json_images, domain)]
        ELSE IF page.reader.kind = "found" /\ reader_images # <<>>
        THEN [state |-> "returned", step |-> 2, images |-> clean_parasites(reader_images, domain)]
        ELSE IF img_urls # <<>>
        THEN [state |-> "returned", step |-> 3, images |-> clean_parasites(img_urls, domain)]
        ELSE [state |-> "returned", step |-> 3, images |-> img_urls]

\* image addresses of a page: a scan written without its scheme or with it,
\* the logo of the site, and a picture of the site's own upload folder
ScanRelative == <<"/", "/", "c", ".", "x", "/", "1", ".", "j", "p", "g">>
Scan == <<"h", "t", "t", "p", "s", ":", "/", "/", "c", ".", "x", "/", "1", ".", "j", "p", "g">>
Logo == <<"h", "t", "t", "p", "s", ":", "/", "/", "c", ".", "x", "/", "L", "o", "g", "o", ".", "p", "n", "g">>
Upload == <<"h", "t", "t", "p", "s", ":", "/", "/", "s", "u", "s", "h", "i", "s", "c", "a", "n", ".", "f", "r", "/", "w", "p", "-", "c", "o", "n", "t", "e", "n", "t", "/", "u", "p", "l", "o", "a", "d", "s", "/", "1", ".", "j", "p", "g">>

Lists(addresses) == UNION {[1..n -> addresses] : n \in 0..MaxCandidates}

\* what the page holds for each strategy: the ts_reader.run payload (none, one
\* that json.loads or the path data["sources"][0]["images"] rejects, or a
\* list), the images of div#readerarea if there is one, and the https
\* addresses the regular expression matches
ImagePages ==
    [domain : {"fr", "net"},
     json : {[kind |-> "none", images |-> <<>>], [kind |-> "invalid", images |-> <<>>]}
              \cup [kind : {"list"}, images : Lists({ScanRelative, Logo, Upload})],
     reader : {[kind |-> "none", images |-> <<>>]}
              \cup [kind : {"found"}, images : Lists({ScanRelative, Logo, Upload})],
     regex : Lists({Scan, Logo, Upload})]

ImagesInit ==
    /\ cancel = FALSE
    /\ FetchIdle
    /\ VolIdle
    /\ ClsIdle /\ LockIdle /\ NameIdle /\ ParseIdle /\ LateIdle
    /\ normIn = <<>> /\ normRuns = <<>>
    /\ imgPage \in ImagePages
    /\ imgOut = NotCalled
    /\ probeIn = NotCalled /\ probeOut = NotCalled

Extract ==
    /\ imgOut = NotCalled
    /\ imgOut' = extract_images(imgPage)
    /\ UNCHANGED <<cancel, fetchVars, volVars, clsVars, lockVars, nameVars, parseVars, lateVars,
                   normIn, normRuns, imgPage, probeIn, probeOut>>

SpecImages == ImagesInit /\ [][Extract]_vars

\* what each strategy offers once the parasite filter has run, in the order
\* the strategies are tried
Offers ==
    << IF imgPage.json.kind = "list"
       THEN clean_parasites(Normalized(imgPage.json.images), imgPage.domain) ELSE <<>>,
       IF imgPage.reader.kind = "found"
       THEN clean_parasites(Normalized(imgPage.reader.images), imgPage.domain) ELSE <<>>,
       clean_parasites(FromKeys(Normalized(imgPage.regex), {}), imgPage.domain) >>

\* C25: the list returned is the filtered list of the first of the three
\* strategies whose filtered list is not empty, and it is empty only when the
\* filtered lists of all three are empty.
C25_AsClaimed ==
    imgOut # NotCalled =>
        IF \E k \in 1..3 : Offers[k] # <<>>
        THEN LET first == CHOOSE k \in 1..3 :
                             Offers[k] # <<>> /\ \A j \in 1..(k - 1) : Offers[j] = <<>>
             IN  imgOut.images = Offers[first]
        ELSE imgOut.images = <<>>

\* ============================ evaluate_cookie_and_challenge (lines 616-682)
CF_CHALLENGE_MARKERS ==
    { <<"j", "u", "s", "t", " ", "a", " ", "m", "o", "m", "e", "n", "t">>,
      <<"c", "h", "e", "c", "k", "i", "n", "g", " ", "y", "o", "u", "r", " ", "b", "r", "o", "w", "s", "e", "r">>,
      <<"c", "f", "-", "b", "r", "o", "w", "s", "e", "r", "-", "v", "e", "r", "i", "f", "i", "c", "a", "t", "i", "o", "n">>,
      <<"_", "_", "c", "f", "_", "c", "h", "l">>,
      <<"c", "h", "a", "l", "l", "e", "n", "g", "e", "-", "p", "l", "a", "t", "f", "o", "r", "m">>,
      <<"a", "t", "t", "e", "n", "t", "i", "o", "n", " ", "r", "e", "q", "u", "i", "r", "e", "d">> }

CONTENT_MARKERS ==
    { <<"s", "u", "s", "h", "i", "s", "c", "a", "n">>,
      <<"e", "n", "t", "r", "y", "-", "t", "i", "t", "l", "e">>,
      <<"w", "p", "-", "m", "a", "n", "g", "a">>,
      <<"c", "h", "a", "p", "t", "e", "r", "n", "u", "m">>,
      <<"r", "e", "a", "d", "e", "r", "a", "r", "e", "a">>,
      <<"t", "s", "_", "r", "e", "a", "d", "e", "r", ".", "r", "u", "n">> }

\* variant: an empty page is no challenge page
EmptyIsNoChallenge(content) ==
    \E marker \in CF_CHALLENGE_MARKERS : Contains(marker, Lower(content))

\* lines 503-508
is_cloudflare_challenge_page(content) ==
    LET text == Lower(content)
    IN  IF text = <<>> THEN TRUE
        ELSE \E marker \in CF_CHALLENGE_MARKERS : Contains(marker, text)

\* the default state of line 641
DefaultState == [cookie_valid |-> FALSE, challenge_state |-> "unknown", http_status |-> NoStatus]

\* variant: an exception of the request leaves the function
ProbeExceptionLeaves(in) == [state |-> "raised", requested |-> TRUE]

\* lines 681-682: except Exception: return result
OnProbeException(in) == [state |-> "returned", requested |-> TRUE, result |-> DefaultState]

\* lines 634-682; requested tells whether make_request was called. test_url
\* (lines 645-648) only chooses the address of that one request.
evaluate_cookie_and_challenge(in) ==
    IF in.domain \notin {"fr", "net"}
    THEN [state |-> "returned", requested |-> FALSE, result |-> DefaultState]
    ELSE IF in.answer.kind = "raises"
    THEN OnProbeException(in)
    ELSE
        LET status_code == in.answer.status
            text == Lower(in.answer.text)
            has_content_markers == \E marker \in CONTENT_MARKERS : Contains(marker, text)
            challenge_blocking == is_cloudflare_challenge_page(text) /\ ~has_content_markers
        IN  [state |-> "returned", requested |-> TRUE, result |->
               IF status_code = 200 /\ ~challenge_blocking
               THEN [cookie_valid |-> Strip(in.cookie) # <<>>,
                     challenge_state |-> "absent", http_status |-> status_code]
               ELSE [cookie_valid |-> FALSE,
                     challenge_state |-> IF challenge_blocking \/ status_code \in {401, 403, 429, 503}
                                         THEN "present" ELSE "unknown",
                     http_status |-> status_code]]

\* lines 616-631: "true", "false", or "raised" if the evaluation raised
test_cookie_validity(in) ==
    IF in.cookie = <<>> THEN "false"
    ELSE LET status == evaluate_cookie_and_challenge(in)
         IN  IF status.state = "raised" THEN "raised"
             ELSE IF status.result.cookie_valid THEN "true" ELSE "false"

\* the pieces a response body is made of
BodyFragments ==
    { <<"J", "u", "s", "t", " ", "a", " ", "m", "o", "m", "e", "n", "t">>,
      <<"_", "_", "c", "f", "_", "c", "h", "l">>,
      <<"S", "u", "s", "h", "i", "S", "c", "a", "n">>,
      <<"r", "e", "a", "d", "e", "r", "a", "r", "e", "a">>,
      <<"o", "k">> }

\* what make_request meets: an exception, or a response with its status code
\* (NoStatus if it has none) and its body
ProbeAnswers ==
    {[kind |-> "raises", status |-> NoStatus, text |-> <<>>]}
        \cup [kind : {"response"},
              status : {NoStatus, 200, 401, 403, 404, 429, 503},
              text : {Join(ps) : ps \in UNION {[1..n -> BodyFragments] : n \in 0..MaxPieces}}]

ProbeInputs ==
    [domain : {"fr", "net", "com"},
     cookie : {<<>>, <<" ">>, <<"c", "f">>, <<" ", "c", "f", " ">>},
     answer : ProbeAnswers]

ProbeInit ==
    /\ cancel = FALSE
    /\ FetchIdle
    /\ VolIdle
    /\ ClsIdle /\ LockIdle /\ NameIdle /\ ParseIdle /\ LateIdle
    /\ normIn = <<>> /\ normRuns = <<>>
    /\ imgPage = NotCalled /\ imgOut = NotCalled
    /\ probeIn \in ProbeInputs
    /\ probeOut = NotCalled

\* the two functions are called with the same arguments and the same answer
Probe ==
    /\ probeOut = NotCalled
    /\ probeOut' = [state |-> "called",
                    evaluated |-> evaluate_cookie_and_challenge(probeIn),
                    tested |-> test_cookie_validity(probeIn)]
    /\ UNCHANGED <<cancel, fetchVars, volVars, clsVars, lockVars, nameVars, parseVars, lateVars,
                   normIn, normRuns, imgPage, imgOut, probeIn>>

SpecProbe == ProbeInit /\ [][Probe]_vars

\* the body of the answer, lower-cased, holds a marker of the set
BodyHolds(markers) == \E marker \in markers : Contains(marker, Lower(probeIn.answer.text))

\* the request was made and answered
Answered ==
    /\ probeOut # NotCalled
    /\ probeIn.domain \in {"fr", "net"}
    /\ probeIn.answer.kind = "response"

\* the decision table, given what counts as a blocking challenge
DecisionTable(blocking) ==
    LET status == probeIn.answer.status
        outcome == probeOut.evaluated.result
    IN  /\ (status = 200 /\ ~blocking) =>
              /\ outcome.challenge_state = "absent"
              /\ outcome.cookie_valid <=> (Strip(probeIn.cookie) # <<>>)
        /\ blocking =>
              /\ outcome.challenge_state = "present"
              /\ ~outcome.cookie_valid
        /\ (status \in {401, 403, 429, 503}) =>
              /\ outcome.challenge_state = "present"
              /\ ~outcome.cookie_valid
        /\ (status \notin {200, 401, 403, 429, 503} /\ ~blocking) =>
              /\ outcome.challenge_state = "unknown"
              /\ ~outcome.cookie_valid
        /\ outcome.cookie_valid =>
              /\ outcome.challenge_state = "absent"
              /\ outcome.http_status = 200

\* C26 as stated: the table with a challenge blocking when the body holds a
\* challenge marker and no content marker.
C26_AsClaimed ==
    Answered => DecisionTable(BodyHolds(CF_CHALLENGE_MARKERS) /\ ~BodyHolds(CONTENT_MARKERS))

\* C26: the table holds with a challenge blocking when the body is empty or
\* holds a challenge marker, and holds no content marker; the cookie is valid
\* only with challenge_state absent and http_status 200.
C26_DecisionTable ==
    Answered =>
        DecisionTable((probeIn.answer.text = <<>> \/ BodyHolds(CF_CHALLENGE_MARKERS))
                      /\ ~BodyHolds(CONTENT_MARKERS))

C26_Witness ==
    /\ Answered
    /\ probeIn.answer.status = 200
    /\ probeIn.answer.text = <<>>
    /\ probeIn.cookie = <<"c", "f">>
    /\ probeOut.evaluated.result =
          [cookie_valid |-> FALSE, challenge_state |-> "present", http_status |-> 200]

\* C27: the evaluation returns whatever the request does; when the request
\* raises, it returns the default state (not valid, unknown, no status) and
\* test_cookie_validity returns false.
C27_NeverRaises ==
    probeOut # NotCalled =>
        /\ probeOut.evaluated.state = "returned"
        /\ probeOut.tested \in {"true", "false"}
        /\ (probeOut.evaluated.requested /\ probeIn.answer.kind = "raises") =>
              /\ probeOut.evaluated.result =
                    [cookie_valid |-> FALSE, challenge_state |-> "unknown", http_status |-> NoStatus]
              /\ probeOut.tested = "false"

C27_Witness ==
    /\ probeOut # NotCalled
    /\ probeIn.domain = "net"
    /\ probeIn.cookie = <<"c", "f">>
    /\ probeIn.answer.kind = "raises"
    /\ probeOut.evaluated.requested
    /\ probeOut.evaluated.state = "returned"
    /\ probeOut.tested = "false"

\* ============================================ claims on the fetcher, continued

\* C28: an attempt is started only past a check of the flag: with the flag set
\* at the head of attempt k the call ends with DownloadCancelled, no GET and no
\* sleep follow, and no error is recorded for it; a GET is issued only after a
\* check that found the flag not set. download_image registers a failure of
\* kind 'cancelled' without status code for it, which is not a hard failure.
C28_CancelCheckedBeforeAttempt ==
    /\ [][(fs.pc = "loop" /\ fs.attempt < max_try /\ hasEvent /\ cancel /\ fs' # fs) =>
            /\ fs'.pc = "cancelled"
            /\ fs'.last_exc = fs.last_exc
            /\ fs'.err = fs.err
            /\ gets' = gets
            /\ nsleeps' = nsleeps]_vars
    /\ [][(fs.pc = "loop" /\ fs'.pc = "get") => ~(hasEvent /\ cancel)]_vars
    /\ [][gets' # gets => fs.pc = "get"]_vars
    /\ [][fs.pc = "cancelled" => (fs' = fs /\ gets' = gets /\ nsleeps' = nsleeps)]_vars
    /\ [](fs.pc = "cancelled" =>
            /\ fs.err = NoErr
            /\ DownloadImageFailure(fs) = Failure("cancelled", NoStatus)
            /\ HardFailures([i \in Images |-> <<DownloadImageFailure(fs)>>]) = {})

\* the flag is found set at the head of the third attempt, after two GETs
C28_Witness ==
    /\ fs.pc = "cancelled"
    /\ fs.attempt = 3
    /\ gets = 2
    /\ nsleeps = 2
    /\ max_try = DefaultMaxTry

\* an answer with a status below 400 whose body is an image that opens
GoodAnswer(resp) ==
    /\ resp.via = "http"
    /\ resp.status < 400
    /\ resp.body = "image"

\* C29: the call returns exactly when a GET is answered with a status below
\* 400 and a body that is no HTML and opens as an image; it returns at that
\* attempt, which is the last GET issued, without a sleep for it, and nothing
\* follows the return.
C29_ReturnsFirstGoodAnswer ==
    /\ [](fs.pc = "returned" <=> GoodAnswer(lastResp))
    /\ [](fs.pc = "returned" =>
            /\ gets = fs.attempt
            /\ nsleeps = gets - 1)
    /\ [][fs.pc = "returned" => (fs' = fs /\ gets' = gets /\ nsleeps' = nsleeps)]_vars

\* the third answer is the first good one, with status 206
C29_Witness ==
    /\ fs.pc = "returned"
    /\ lastResp.status = 206
    /\ gets = 3
    /\ nsleeps = 2
    /\ fs.last_exc = Err("retryable", NoStatus)

\* an answer with a status below 400 whose body is no HTML and does not open
\* as an image
Undecodable(resp) ==
    /\ resp.via = "http"
    /\ resp.status < 400
    /\ resp.body = "garbage"

\* C30: the GET that brings an undecodable body leaves the call running: the
\* error recorded is 'retryable' without status code, nothing is raised, and
\* the sleep entered next lasts delay * attempt; after the sleep the loop goes
\* on unless the flag ends it. A call that raises while that answer is the
\* last one has used all its attempts and raises that recorded error.
C30_UndecodableIsRetried ==
    /\ [][(gets' = gets + 1 /\ Undecodable(lastResp')) =>
            /\ fs'.pc = "backoff"
            /\ fs'.last_exc = Err("retryable", NoStatus)
            /\ fs'.err = NoErr
            /\ fs'.sleep_time = delay * fs.attempt
            /\ fs'.attempt = fs.attempt]_vars
    /\ [][(Undecodable(lastResp) /\ SleepPending(fs) /\ fs' # fs) =>
            /\ fs'.pc \in {"waiting", "loop", "cancelled"}
            /\ fs'.pc = "cancelled" => cancel
            /\ fs'.last_exc = fs.last_exc]_vars
    /\ [][(Undecodable(lastResp) /\ fs.pc = "loop" /\ fs.attempt < max_try
             /\ ~(hasEvent /\ cancel) /\ fs' # fs) =>
            /\ fs'.pc = "get"
            /\ fs'.attempt = fs.attempt + 1]_vars
    /\ []((Undecodable(lastResp) /\ fs.pc = "raised") =>
            /\ fs.attempt = max_try
            /\ gets = max_try
            /\ nsleeps = max_try
            /\ fs.err = Err("retryable", NoStatus)
            /\ fs.err = fs.last_exc)

\* the second answer was undecodable, the sleep of 2 * delay is over and the
\* third attempt is about to issue its GET
C30_Witness ==
    /\ fs.pc = "get"
    /\ Undecodable(lastResp)
    /\ fs.attempt = 3
    /\ gets = 2
    /\ nsleeps = 2
    /\ delay = DefaultDelay
    /\ fs.sleep_time = 4
    /\ fs.last_exc = Err("retryable", NoStatus)

\* an answer with a status below 400 whose first 1024 bytes hold an HTML tag
HtmlAnswer(resp) ==
    /\ resp.via = "http"
    /\ resp.status < 400
    /\ resp.body = "html"

\* C31: the GET answered by an HTML page with a status below 400 never makes
\* the call return: the error recorded is 'blocked_or_retryable' without status
\* code, the sleep entered lasts delay * attempt as for any failure without a
\* 403 or 429, and the call raises with that answer last only once all
\* attempts are used.
C31_HtmlBodyIsBlocked ==
    /\ [][(gets' = gets + 1 /\ HtmlAnswer(lastResp')) =>
            /\ fs'.pc = "backoff"
            /\ fs'.last_exc = Err("blocked_or_retryable", NoStatus)
            /\ fs'.sleep_time = delay * fs.attempt
            /\ fs'.attempt = fs.attempt]_vars
    /\ [](HtmlAnswer(lastResp) =>
            /\ fs.pc # "returned"
            /\ fs.last_exc = Err("blocked_or_retryable", NoStatus)
            /\ fs.pc = "raised" =>
                  /\ fs.err = Err("blocked_or_retryable", NoStatus)
                  /\ gets = max_try)
    /\ [][(HtmlAnswer(lastResp) /\ fs.pc = "loop" /\ fs.attempt < max_try
             /\ ~(hasEvent /\ cancel) /\ fs' # fs) => fs'.pc = "get"]_vars

\* a page answered with status 206 at the second attempt is being waited out
C31_Witness ==
    /\ HtmlAnswer(lastResp)
    /\ lastResp.status = 206
    /\ fs.pc = "waiting"
    /\ fs.attempt = 2
    /\ fs.sleep_time = 2 * delay
    /\ delay = 1

\* ===================== the executor of download_volume (lines 1165-1213)
MaxTasks == 5

\* variant: a thread for every task
PoolUnbounded(tasks) == TRUE

\* ThreadPoolExecutor(max_workers=THREADS), line 1165: a queued task starts
\* only on a thread that runs no other task
PoolHasFreeThread(tasks) ==
    Cardinality({i \in 1..Len(tasks) : tasks[i] = "running"}) < THREADS

WidthInit ==
    /\ cancel = FALSE
    /\ FetchIdle
    /\ VolIdle
    /\ ClsIdle /\ LockIdle /\ NameIdle /\ ParseIdle /\ PureIdle
    /\ \E n \in 0..MaxTasks :
          wpool = [state |-> "open", pc |-> "submit", submitted |-> 0,
                   tasks |-> [i \in 1..n |-> "unsubmitted"],
                   calls |-> [i \in 1..n |-> 0]]
    /\ sel = NotCalled
    /\ strip = NotCalled

notWidth == <<fetchVars, volVars, clsVars, lockVars, nameVars, parseVars, pureVars, sel, strip>>

\* cancel_download (line 3305) from the UI thread
WidthSetCancel ==
    /\ wpool.pc # "done" /\ ~cancel
    /\ cancel' = TRUE
    /\ UNCHANGED <<wpool, notWidth>>

\* lines 1170-1196: one turn of the submit loop
WidthSubmit ==
    /\ wpool.pc = "submit"
    /\ wpool' =
          IF wpool.submitted = Len(wpool.tasks) \/ cancel
          THEN [wpool EXCEPT !.pc = "collect"]
          ELSE [wpool EXCEPT !.submitted = @ + 1, !.tasks[wpool.submitted + 1] = "queued"]
    /\ UNCHANGED <<cancel, notWidth>>

\* a thread takes the oldest queued task: download_image up to its call of
\* robust_download_image (line 809), or its return at lines 774-776
WidthStart(i) ==
    /\ wpool.tasks[i] = "queued"
    /\ \A j \in 1..(i - 1) : wpool.tasks[j] # "queued"
    /\ PoolHasFreeThread(wpool.tasks)
    /\ wpool' =
          IF cancel THEN [wpool EXCEPT !.tasks[i] = "done"]
          ELSE [wpool EXCEPT !.tasks[i] = "running", !.calls[i] = @ + 1]
    /\ UNCHANGED <<cancel, notWidth>>

\* robust_download_image ends, download_image returns
WidthFinish(i) ==
    /\ wpool.tasks[i] = "running"
    /\ wpool' = [wpool EXCEPT !.tasks[i] = "done"]
    /\ UNCHANGED <<cancel, notWidth>>

\* lines 1199-1202: a future completes, the flag is set, the queue is dropped
WidthShutdown ==
    /\ wpool.pc = "collect"
    /\ cancel
    /\ \E i \in 1..Len(wpool.tasks) : wpool.tasks[i] = "done"
    /\ wpool' = [wpool EXCEPT !.pc = "exit",
                               !.tasks = [i \in 1..Len(wpool.tasks) |->
                                            IF wpool.tasks[i] = "queued" THEN "dropped"
                                            ELSE wpool.tasks[i]]]
    /\ UNCHANGED <<cancel, notWidth>>

\* as_completed has yielded every future
WidthCollected ==
    /\ wpool.pc = "collect"
    /\ \A i \in 1..Len(wpool.tasks) : wpool.tasks[i] \in {"unsubmitted", "done"}
    /\ wpool' = [wpool EXCEPT !.pc = "exit"]
    /\ UNCHANGED <<cancel, notWidth>>

\* the end of the with block: shutdown(wait=True)
WidthExit ==
    /\ wpool.pc = "exit"
    /\ \A i \in 1..Len(wpool.tasks) : wpool.tasks[i] \notin {"queued", "running"}
    /\ wpool' = [wpool EXCEPT !.pc = "done"]
    /\ UNCHANGED <<cancel, notWidth>>

WidthNext ==
    \/ WidthSetCancel
    \/ WidthSubmit
    \/ \E i \in 1..Len(wpool.tasks) : WidthStart(i)
    \/ \E i \in 1..Len(wpool.tasks) : WidthFinish(i)
    \/ WidthShutdown
    \/ WidthCollected
    \/ WidthExit

SpecWidth == WidthInit /\ [][WidthNext]_vars

\* C32: at no time are more than THREADS calls of robust_download_image
\* running in the pool of a chapter, and no image of the chapter is given to
\* more than one call.
C32_PoolWidth ==
    /\ Cardinality({i \in 1..Len(wpool.tasks) : wpool.tasks[i] = "running"}) <= THREADS
    /\ \A i \in 1..Len(wpool.tasks) : wpool.calls[i] <= 1

\* three calls running while a fourth image waits in the queue
C32_Witness ==
    /\ Len(wpool.tasks) >= 4
    /\ Cardinality({i \in 1..Len(wpool.tasks) : wpool.tasks[i] = "running"}) = THREADS
    /\ \E i \in 1..Len(wpool.tasks) : wpool.tasks[i] = "queued"
    /\ ~cancel

\* ============================ cancellation of a chapter download, liveness
\* Every step of download_volume, of its workers and of its prompts; the UI
\* thread alone decides whether the flag is ever set.
Progress ==
    \/ Entry
    \/ MakeDirs
    \/ Submit
    \/ CollectNext
    \/ AfterPool
    \/ Hard
    \/ AnswerYesNo
    \/ AnswerString
    \/ Finalize
    \/ \E i \in Images : WorkerStart(i)
    \/ \E i \in Images : WorkerAttempt(i)
    \/ \E i \in Images : WorkerWake(i)

\* The threads are scheduled, and every network call, sleep and prompt returns.
SpecLive == Init /\ [][Next]_vars /\ WF_vars(Progress)

MaxChapters == 2
MaxRuns == 2

Chapters == 1..Len(sel.first)

NoArchive == [exists |-> FALSE, size |-> ArchiveMinSize - 1]

\* variant: any archive file is taken for a finished chapter
SkipAnyArchive(a) == a.exists

\* line 3165: os.path.exists(cbz_path) and os.path.getsize(cbz_path) > 10_000
SkipExisting(a) == a.exists /\ a.size > ArchiveMinSize

\* variant: the retry pass is entered whatever the flag
RetryIgnoresFlag(isSet, failed) == failed # <<>>

\* line 3239: if not self.cancel_event.is_set() and failed
RetryPassRuns(isSet, failed) == ~isSet /\ failed # <<>>

\* what the network gives get_images: an exception of make_request, or a page
\* from which extract_images takes n addresses
PageReplies == {[via |-> "exc", images |-> 0], [via |-> "http", images |-> 0],
                [via |-> "http", images |-> NImages]}

\* get_images, lines 1075-1119: the number of addresses it returns
get_images(reply) == IF reply.via = "exc" THEN 0 ELSE reply.images

\* download_volume as download_selected sees it: what it returns, and the file
\* archive_cbz leaves at cbz_path. None is returned only with the flag set
\* (lines 1144, 1215, 1257, 1315); archive_cbz is reached only with archiving on.
VolumeReturns(isSet, cbz_on) ==
    {[returned |-> "Failed", wrote |-> FALSE, size |-> ArchiveMinSize - 1]}
    \cup (IF isSet THEN {[returned |-> "Cancelled", wrote |-> FALSE, size |-> ArchiveMinSize - 1]}
          ELSE {})
    \cup (IF cbz_on
          THEN {[returned |-> (CASE archive_cbz([exists |-> TRUE, files |-> [i \in Images |-> 0]], o).returned = "true" -> "Success"
                                 [] archive_cbz([exists |-> TRUE, files |-> [i \in Images |-> 0]], o).returned = "false" -> "Failed"
                                 [] OTHER -> "Raised"),
                 wrote |-> TRUE, size |-> o.size] : o \in ArchiveOutcomes}
          ELSE {[returned |-> "Success", wrote |-> FALSE, size |-> ArchiveMinSize - 1]})

\* a run starts (lines 3118-3134, 3299): the flag cleared, nothing tried yet
StartRun(n, run, cbz_on, archive, success) ==
    [state |-> "called", run |-> run, pc |-> "first", k |-> 0, cbz_on |-> cbz_on,
     failed |-> <<>>, retry_failed |-> <<>>,
     first |-> [c \in 1..n |-> "none"], second |-> [c \in 1..n |-> "none"],
     tries |-> [c \in 1..n |-> 0],
     archive |-> archive, success |-> success,
     flagged |-> FALSE, stopped |-> FALSE]

SelectedInit ==
    /\ cancel = FALSE
    /\ FetchIdle
    /\ VolIdle
    /\ ClsIdle /\ LockIdle /\ NameIdle /\ ParseIdle /\ PureIdle
    /\ wpool = NotCalled
    /\ strip = NotCalled
    /\ \E n \in 1..MaxChapters, cbz_on \in BOOLEAN :
          sel = StartRun(n, 1, cbz_on, [c \in 1..n |-> NoArchive], [c \in 1..n |-> FALSE])

notSel == <<fetchVars, volVars, clsVars, lockVars, nameVars, parseVars, pureVars, wpool, strip>>

\* cancel_download (lines 3303-3307) from the UI thread
SelSetCancel ==
    /\ sel.pc \notin {"ended", "died"} /\ ~cancel
    /\ cancel' = TRUE
    /\ sel' = [sel EXCEPT !.flagged = TRUE]
    /\ UNCHANGED notSel

\* what follows a download_volume call at lines 3210-3237 or 3250-3266
AfterVolume(c, out, pass) ==
    LET file == IF out.wrote THEN [exists |-> TRUE, size |-> out.size] ELSE sel.archive[c]
        s1 == [sel EXCEPT !.archive[c] = file,
                          !.success[c] = @ \/ (out.returned = "Success" /\ sel.cbz_on)]
        s2 == IF pass = "first" THEN [s1 EXCEPT !.first[c] = out.returned]
              ELSE [s1 EXCEPT !.second[c] = out.returned]
    IN  IF out.returned = "Raised" THEN [s2 EXCEPT !.pc = "died"]
        ELSE IF out.returned = "Cancelled" /\ cancel
        THEN IF pass = "first" THEN [s2 EXCEPT !.pc = "gate", !.stopped = TRUE]
             ELSE [s2 EXCEPT !.pc = "final"]
        ELSE IF out.returned = "Failed"
        THEN IF pass = "first" THEN [s2 EXCEPT !.failed = Append(@, c), !.pc = "first"]
             ELSE [s2 EXCEPT !.retry_failed = Append(@, c), !.pc = "retry"]
        ELSE [s2 EXCEPT !.pc = pass]

\* lines 3141-3183: the head of the first loop, the skip test and get_images
SelFirst ==
    /\ sel.pc = "first"
    /\ IF sel.k = Len(sel.first) THEN sel' = [sel EXCEPT !.pc = "gate"]
       ELSE IF cancel THEN sel' = [sel EXCEPT !.pc = "gate", !.stopped = TRUE]
       ELSE LET c == sel.k + 1
            IN  IF SkipExisting(sel.archive[c])
                THEN sel' = [sel EXCEPT !.k = c, !.first[c] = "skipped"]
                ELSE \E reply \in PageReplies :
                        IF get_images(reply) = 0
                        THEN sel' = [sel EXCEPT !.k = c, !.tries[c] = @ + 1, !.first[c] = "empty",
                                                !.failed = Append(@, c)]
                        ELSE sel' = [sel EXCEPT !.k = c, !.tries[c] = @ + 1, !.pc = "first_dl"]
    /\ UNCHANGED <<cancel, notSel>>

\* lines 3210-3237: download_volume returns in the first pass
SelFirstDownload ==
    /\ sel.pc = "first_dl"
    /\ \E out \in VolumeReturns(cancel, sel.cbz_on) : sel' = AfterVolume(sel.k, out, "first")
    /\ UNCHANGED <<cancel, notSel>>

\* line 3239: the retry pass is entered or not
SelGate ==
    /\ sel.pc = "gate"
    /\ sel' = IF RetryPassRuns(cancel, sel.failed) THEN [sel EXCEPT !.pc = "retry", !.k = 0]
              ELSE [sel EXCEPT !.pc = "final"]
    /\ UNCHANGED <<cancel, notSel>>

\* lines 3246-3251 and 3267-3269: the head of the retry loop and get_images
SelRetry ==
    /\ sel.pc = "retry"
    /\ IF sel.k = Len(sel.failed) \/ cancel THEN sel' = [sel EXCEPT !.pc = "final"]
       ELSE LET c == sel.failed[sel.k + 1]
            IN  \E reply \in PageReplies :
                    IF get_images(reply) = 0
                    THEN sel' = [sel EXCEPT !.k = @ + 1, !.tries[c] = @ + 1, !.second[c] = "empty",
                                            !.retry_failed = Append(@, c)]
                    ELSE sel' = [sel EXCEPT !.k = @ + 1, !.tries[c] = @ + 1, !.pc = "retry_dl"]
    /\ UNCHANGED <<cancel, notSel>>

\* lines 3252-3266: download_volume returns in the retry pass
SelRetryDownload ==
    /\ sel.pc = "retry_dl"
    /\ \E out \in VolumeReturns(cancel, sel.cbz_on) :
          sel' = AfterVolume(sel.failed[sel.k], out, "retry")
    /\ UNCHANGED <<cancel, notSel>>

\* lines 3277-3285: the end of the task, the flag cleared
SelFinal ==
    /\ sel.pc = "final"
    /\ cancel' = FALSE
    /\ sel' = [sel EXCEPT !.pc = "ended"]
    /\ UNCHANGED notSel

\* a later run over the same chapters (line 3120 clears the flag)
SelAgain ==
    /\ sel.pc \in {"ended", "died"}
    /\ sel.run < MaxRuns
    /\ cancel' = FALSE
    /\ sel' = StartRun(Len(sel.first), sel.run + 1, sel.cbz_on, sel.archive, sel.success)
    /\ UNCHANGED notSel

SelectedNext ==
    \/ SelSetCancel
    \/ SelFirst
    \/ SelFirstDownload
    \/ SelGate
    \/ SelRetry
    \/ SelRetryDownload
    \/ SelFinal
    \/ SelAgain

SpecSelected == SelectedInit /\ [][SelectedNext]_vars

\* C34 as claimed: when a run of download_selected is over and the flag was
\* never set in it, every chapter whose first pass gave no image or Failed was
\* tried exactly twice, every chapter that succeeded exactly once, and none
\* more than twice.
C34_AsClaimed ==
    (sel.state = "called" /\ sel.pc \in {"ended", "died"} /\ ~sel.flagged) =>
        \A c \in Chapters :
            /\ sel.first[c] \in {"empty", "Failed"} => sel.tries[c] = 2
            /\ sel.first[c] = "Success" => sel.tries[c] = 1
            /\ sel.tries[c] <= 2

\* C35: once a download_volume call of the first pass has returned Cancelled,
\* or the flag was seen at the head of the first loop, no further chapter is
\* tried, the retry pass is not entered, and no chapter whose download
\* returned Cancelled is in the list of chapters to retry.
C35_CancelEndsTheRun ==
    /\ [][(sel.state = "called" /\ sel.stopped /\ sel'.run = sel.run) =>
              /\ sel'.tries = sel.tries
              /\ sel'.failed = sel.failed
              /\ sel'.pc \in {"gate", "final", "ended"}]_vars
    /\ [](sel.state = "called" =>
              \A c \in Chapters :
                  sel.first[c] = "Cancelled" =>
                      /\ \A j \in 1..Len(sel.failed) : sel.failed[j] # c
                      /\ sel.tries[c] = 1
                      /\ sel.stopped)

\* the first chapter failed, the second was cancelled: the run ended with the
\* failed chapter waiting in the list and never retried
C35_Witness ==
    /\ sel.state = "called" /\ sel.pc = "ended" /\ sel.stopped
    /\ Len(sel.first) = 2
    /\ sel.first[1] = "Failed" /\ sel.first[2] = "Cancelled"
    /\ sel.failed = <<1>> /\ sel.tries = <<1, 1>>

\* C37: a chapter for which download_volume returned Success with archiving
\* on is skipped in every later run before get_images is called, the archive
\* at its path being larger than ArchiveMinSize; an archive file left by a
\* download that did not succeed, of that size or less, never makes the
\* chapter skipped.
C37_ArchivedChaptersAreSkipped ==
    /\ [](sel.state = "called" =>
              \A c \in Chapters :
                  sel.success[c] => (sel.archive[c].exists /\ sel.archive[c].size > ArchiveMinSize))
    /\ [][(sel.state = "called" /\ sel'.run = sel.run) =>
              \A c \in Chapters :
                  /\ (sel.success[c] /\ sel.first[c] = "none") =>
                        (sel'.tries[c] = 0 /\ sel'.first[c] \in {"none", "skipped"})
                  /\ (sel.first[c] = "none" /\ sel'.first[c] = "skipped") =>
                        (sel.archive[c].exists /\ sel.archive[c].size > ArchiveMinSize)]_vars

\* second run: the chapter archived by the first run was skipped untried, the
\* chapter whose archive came out too small was tried again
C37_Witness ==
    /\ sel.state = "called" /\ sel.run = 2 /\ Len(sel.first) = 2
    /\ sel.success[1] /\ sel.first[1] = "skipped" /\ sel.tries[1] = 0
    /\ sel.archive[1].size = ArchiveMinSize + 1
    /\ ~sel.success[2] /\ sel.archive[2].exists /\ sel.archive[2].size = ArchiveMinSize
    /\ sel.tries[2] = 1

\* ============================================ the accounting of the pool
\* C36 as claimed: when the pool has ended and the flag was not set while it
\* ran, every image has either its file in the folder and no failure entry,
\* or exactly one failure entry and no file; files and entries add up to the
\* number of images.
C36_AsClaimed ==
    (PoolEnded /\ ~cancelInPool /\ ~cancel) =>
        /\ \A i \in Images :
              \/ files[i] = depth /\ failed_downloads[i] = <<>>
              \/ files[i] = NoFile /\ Len(failed_downloads[i]) = 1
        /\ FileCount(files) + Cardinality({i \in Images : failed_downloads[i] # <<>>}) = NImages

\* ================= the address evaluate_cookie_and_challenge probes (645-652)
Https == <<"h", "t", "t", "p", "s", ":", "/", "/">>

\* the text before the first character of stops
UpTo(text, stops) ==
    LET ks == {k \in 1..Len(text) : text[k] \in stops}
    IN  IF ks = {} THEN text
        ELSE SubSeq(text, 1, (CHOOSE k \in ks : \A j \in ks : k <= j) - 1)

\* the text after the last occurrence of ch
AfterLast(text, ch) ==
    LET ks == {k \in 1..Len(text) : text[k] = ch}
    IN  IF ks = {} THEN text
        ELSE SubSeq(text, (CHOOSE k \in ks : \A j \in ks : k >= j) + 1, Len(text))

\* urlparse(url).hostname: the authority without user info and port, lower-cased
Hostname(url) ==
    LET rest == IF StartsWith(url, Https) THEN SubSeq(url, Len(Https) + 1, Len(url)) ELSE <<>>
        authority == UpTo(rest, {"/", "?", "#"})
    IN  Lower(UpTo(AfterLast(authority, "@"), {":"}))

\* f"sushiscan.{domain}"
ExpectedHost(domain) == IF domain = "fr" THEN HostFr ELSE HostNet

\* lines 646-649: the address the probe is sent to
ProbeTestUrl(domain, probe_url) ==
    LET root == Https \o ExpectedHost(domain) \o <<"/">>
        test_url == IF probe_url # <<>> THEN probe_url ELSE root
    IN  IF ~Contains(ExpectedHost(domain), test_url) THEN root ELSE test_url

\* make_request, lines 522-546: a Cookie header is sent whenever the caller
\* passed a cookie, whatever the host (line 541)
SendsCookie(cookie_value) == cookie_value # <<>>

ProbeUrlPaths == {<<"/">>, <<"/", "?", "u", "=">> \o HostFr, <<"/">> \o HostNet \o <<"/">>}

ProbeUrls ==
    {<<>>} \cup
    {Https \o h \o q : h \in {HostFr, HostNet, <<"w", "w", "w">> \o DotFr,
                                HostFr \o <<"@", "x", ".", "o", "r", "g">>} \cup ForeignHosts,
                        q \in ProbeUrlPaths}

AddressInit ==
    /\ cancel = FALSE
    /\ FetchIdle
    /\ VolIdle
    /\ ClsIdle /\ LockIdle /\ NameIdle /\ ParseIdle /\ LateIdle
    /\ normIn = <<>> /\ normRuns = <<>>
    /\ imgPage = NotCalled /\ imgOut = NotCalled
    /\ probeIn \in [domain : {"fr", "net", "com"}, cookie : {<<>>, <<"c", "f">>},
                     probe_url : ProbeUrls]
    /\ probeOut = NotCalled

\* evaluate_cookie_and_challenge up to its call of make_request
ProbeAddress ==
    /\ probeOut = NotCalled
    /\ probeOut' =
          IF probeIn.domain \notin {"fr", "net"}
          THEN [state |-> "called", requested |-> FALSE, test_url |-> <<>>, host |-> <<>>,
                with_cookie |-> FALSE]
          ELSE LET test_url == ProbeTestUrl(probeIn.domain, probeIn.probe_url)
               IN  [state |-> "called", requested |-> TRUE, test_url |-> test_url,
                    host |-> Hostname(test_url), with_cookie |-> SendsCookie(probeIn.cookie)]
    /\ UNCHANGED <<cancel, fetchVars, volVars, clsVars, lockVars, nameVars, parseVars, lateVars,
                   normIn, normRuns, imgPage, imgOut, probeIn>>

SpecAddress == AddressInit /\ [][ProbeAddress]_vars

\* C38 as claimed: the probe request is sent only to a host of
\* sushiscan.<domain> (the host itself or one below it); a probe_url on any
\* other host is replaced by the root of the domain, and for a domain other
\* than fr and net no request is sent.
C38_AsClaimed ==
    probeOut.state = "called" =>
        /\ probeIn.domain \notin {"fr", "net"} => ~probeOut.requested
        /\ probeOut.requested =>
              /\ get_sushiscan_domain_from_host(probeOut.host) = probeIn.domain
              /\ get_sushiscan_domain_from_host(Hostname(probeIn.probe_url)) # probeIn.domain =>
                    probeOut.test_url = Https \o ExpectedHost(probeIn.domain) \o <<"/">>

\* ======================================== the probe answered with no body
\* C39: a response with an empty body counts as a blocking challenge whatever
\* its status code, 200 included: the evaluation gives challenge_state present
\* and cookie_valid false, and test_cookie_validity false, even for a cookie
\* that is not empty.
C39_EmptyBodyIsAChallenge ==
    (Answered /\ probeIn.answer.text = <<>>) =>
        /\ is_cloudflare_challenge_page(Lower(probeIn.answer.text))
        /\ probeOut.evaluated.result.challenge_state = "present"
        /\ ~probeOut.evaluated.result.cookie_valid
        /\ probeOut.evaluated.result.http_status = probeIn.answer.status
        /\ probeOut.tested = "false"

\* a 404 without body, which with any other body would leave the state unknown
C39_Witness ==
    /\ Answered
    /\ probeIn.answer.text = <<>>
    /\ probeIn.answer.status = 404
    /\ probeIn.domain = "net"
    /\ probeIn.cookie = <<" ", "c", "f", " ">>
    /\ probeOut.evaluated.result.challenge_state = "present"
    /\ probeOut.tested = "false"

\* ================== cut.py, iter_pages_from_strip (lines 164-180)
MaxHeight == 7
MaxPageHeight == 4
MaxTrim == 3

\* Image.crop((0, top, width, bottom)): the band kept, with its height
Crop(top, bottom) == [top |-> top, bottom |-> bottom, height |-> bottom - top]

\* variant: the trim applied to every page
TrimEveryPage(page, page_bottom_trim) ==
    Crop(page.top, page.top + (page.height - page_bottom_trim))

\* lines 171-172: the bottom trim of a page taller than the trim
TrimBottom(page, page_bottom_trim) ==
    IF page_bottom_trim > 0 /\ page.height > page_bottom_trim
    THEN Crop(page.top, page.top + (page.height - page_bottom_trim))
    ELSE page

StripInit ==
    /\ cancel = FALSE
    /\ FetchIdle
    /\ VolIdle
    /\ ClsIdle /\ LockIdle /\ NameIdle /\ ParseIdle /\ PureIdle
    /\ wpool = NotCalled
    /\ sel = NotCalled
    /\ \E h \in 0..MaxHeight, ph \in 1..MaxPageHeight, t \in 0..MaxTrim, w \in BOOLEAN :
          strip = [state |-> "called", height |-> h, page_height |-> ph,
                   page_bottom_trim |-> t, skip_mostly_white_pages |-> w,
                   y |-> 0, pages |-> <<>>, dropped |-> 0]

\* one turn of the while loop of lines 166-180; is_mostly_white is whatever
\* the pixels make it
StripTurn ==
    /\ strip.state = "called"
    /\ strip.y < strip.height
    /\ LET chunk_bottom == Min(strip.y + strip.page_height, strip.height)
           page == TrimBottom(Crop(strip.y, chunk_bottom), strip.page_bottom_trim)
           s1 == [strip EXCEPT !.y = @ + strip.page_height]
       IN  IF page.height <= 0 THEN strip' = [s1 EXCEPT !.dropped = @ + 1]
           ELSE \E white \in (IF strip.skip_mostly_white_pages THEN BOOLEAN ELSE {FALSE}) :
                   strip' = IF white THEN [s1 EXCEPT !.dropped = @ + 1]
                            ELSE [s1 EXCEPT !.pages = Append(@, page)]
    /\ UNCHANGED <<cancel, fetchVars, volVars, clsVars, lockVars, nameVars, parseVars, pureVars,
                   wpool, sel>>

SpecStrip == StripInit /\ [][StripTurn]_vars

RECURSIVE SumHeights(_)
SumHeights(pages) == IF pages = <<>> THEN 0 ELSE Head(pages).height + SumHeights(Tail(pages))

\* C40: with the white-page skip off, the pages yielded are, from the top, the
\* consecutive bands of page_height rows (the last one shorter), one for every
\* band, ceil(height / page_height) in all when the strip is used up; without
\* bottom trim every page is at most page_height high and the heights add up
\* to the height of the strip; with a bottom trim t every band higher than t
\* loses exactly its last t rows and a band of t rows or less is yielded whole.
C40_PagesOfAStrip ==
    (strip.state = "called" /\ ~strip.skip_mostly_white_pages) =>
        LET h == strip.height
            ph == strip.page_height
            t == strip.page_bottom_trim
            n == Len(strip.pages)
        IN  /\ strip.dropped = 0
            /\ n * ph = strip.y
            /\ strip.y >= h => n = (h + ph - 1) \div ph
            /\ \A k \in 1..n :
                  LET band == Min(k * ph, h) - (k - 1) * ph
                      page == strip.pages[k]
                  IN  /\ page.top = (k - 1) * ph
                      /\ page.height >= 1
                      /\ page.height = IF t > 0 /\ band > t THEN band - t ELSE band
                      /\ k < n => page.bottom <= strip.pages[k + 1].top
            /\ t = 0 => /\ \A k \in 1..n : strip.pages[k].height <= ph
                        /\ SumHeights(strip.pages) = Min(strip.y, h)

\* a strip of 7 rows cut every 3 with a trim of 1: two pages of 2 rows and the
\* last band of one row yielded whole
C40_Witness ==
    /\ strip.state = "called" /\ ~strip.skip_mostly_white_pages
    /\ strip.height = 7 /\ strip.page_height = 3 /\ strip.page_bottom_trim = 1
    /\ strip.y >= strip.height
    /\ strip.pages = <<Crop(0, 2), Crop(3, 5), Crop(6, 7)>>

====
